---- MODULE Spec2Model ----
(***************************************************************************)
(* Fragment metadata of the array storage engine                           *)
(* (tiledb/sm/fragment/fragment_metadata.cc): the writer's streaming       *)
(* append of tile offsets, the versioned store of the manifest, the lazy,  *)
(* memory-tracked section loaders and the accessors guarded by the         *)
(* per-section loaded flags.                                               *)
(*                                                                         *)
(* Conventions.  Field indices are 0-based as in the code; a per-field     *)
(* container is a function over 0..num-1.  A per-tile vector is a          *)
(* sequence: tile id t of the code is position t+1.  uint64 quantities are *)
(* naturals; file sizes never approach 2^64 within the bounds.             *)
(***************************************************************************)
EXTENDS Integers, Sequences, FiniteSets, TLC

(***************************************************************************)
(* Bounds                                                                  *)
(***************************************************************************)
MaxTiles == 2   \* largest tile count handed to set_num_tiles
MaxStep == 2    \* largest persisted tile size handed to set_tile_*_offset

(***************************************************************************)
(* Generic helpers                                                         *)
(***************************************************************************)
Min2(a, b) == IF a <= b THEN a ELSE b
Max2(a, b) == IF a >= b THEN a ELSE b

\* std::vector::resize(n, fill) on a per-tile vector
Resize(v, n, fill) ==
  IF n <= Len(v) THEN SubSeq(v, 1, n)
  ELSE v \o [k \in 1..(n - Len(v)) |-> fill]

\* std::vector::resize(num) on a per-field container (new slots default)
ResizeOuter(f, num, dflt) ==
  [i \in 0..(num - 1) |-> IF i \in DOMAIN f THEN f[i] ELSE dflt]

RECURSIVE SumSeq(_)
SumSeq(s) ==
  IF s = <<>> THEN 0
  ELSE IF Len(s) = 1 THEN s[1]
  ELSE SumSeq(SubSeq(s, 1, Len(s) \div 2))
       + SumSeq(SubSeq(s, Len(s) \div 2 + 1, Len(s)))

Zeros(n) == [k \in 1..n |-> 0]

\* In(v) with v computed once
Bind(v, In(_)) == CHOOSE r \in {In(x) : x \in {v}} : TRUE

RECURSIVE Concat(_)
Concat(ss) ==
  IF ss = <<>> THEN <<>>
  ELSE IF Len(ss) = 1 THEN ss[1]
  ELSE Concat(SubSeq(ss, 1, Len(ss) \div 2))
       \o Concat(SubSeq(ss, Len(ss) \div 2 + 1, Len(ss)))

(***************************************************************************)
(* Integer types.  The 64-bit, the 32-bit and the 8- and 16-bit integers   *)
(* of the code are LongBits, IntBits and ShortBits wide here; a value is   *)
(* kept as the code keeps it, reduced to the width of its type.  The       *)
(* operands of a type narrower than int are promoted to int before any     *)
(* arithmetic, and int holds every value such a computation passes         *)
(* through: the arithmetic on promoted operands is exact.                  *)
(***************************************************************************)
LongBits == 6
IntBits == 3
ShortBits == 3

Pow2(n) == 2 ^ n
\* the value of a two's complement / an unsigned integer of w bits
ToSigned(x, w) == ((x + Pow2(w - 1)) % Pow2(w)) - Pow2(w - 1)
ToUnsigned(x, w) == x % Pow2(w)

\* std::numeric_limits<T>::max() and ::min() (lowest) of the integer types
BitsOf(type) ==
  IF type \in {"int8", "uint8"} THEN ShortBits
  ELSE IF type \in {"int32", "uint32"} THEN IntBits ELSE LongBits
IsSignedType(type) == type \in {"int8", "int32", "int64"}
numeric_limits_max(type) ==
  IF IsSignedType(type) THEN Pow2(BitsOf(type) - 1) - 1
  ELSE Pow2(BitsOf(type)) - 1
numeric_limits_min(type) ==
  IF IsSignedType(type) THEN 0 - Pow2(BitsOf(type) - 1) ELSE 0

\* integral promotion applies to the types of a rank below int
IsPromoted(type) == type \in {"int8", "uint8"}
\* static_cast<unsigned_t>(x) and the conversion of a result to T
AsUnsigned(x, type) == ToUnsigned(x, BitsOf(type))
AsType(x, type) ==
  IF IsSignedType(type) THEN ToSigned(x, BitsOf(type))
  ELSE ToUnsigned(x, BitsOf(type))
\* the values of T
ValuesOf(type) == numeric_limits_min(type)..numeric_limits_max(type)
\* the division of C++ on int operands truncates towards zero
TruncDiv(a, b) == IF a >= 0 THEN a \div b ELSE 0 - ((0 - a) \div b)

(***************************************************************************)
(* Array schemas (external, shared immutable).  "sf" and "sv" have one     *)
(* var-sized nullable attribute and one dimension; the dimension is        *)
(* fixed-size in "sf" and var-size in "sv".  "sm" has an attribute of      *)
(* every kind that the fragment statistics tell apart: a fixed-size char,  *)
(* a nullable int64, a uint64 and a var-sized string.  "sb" and "su" are   *)
(* "sf" with a dimension of a narrow type: a signed one whose domain is    *)
(* the whole type (the minimum to the maximum of int8) with tiles of one   *)
(* cell, and an unsigned one from 1 to the maximum of uint8 less one.      *)
(* name_bytes are the characters of the schema name.                       *)
(***************************************************************************)
StatsAttributes ==
  << [name |-> "c", var_size |-> FALSE, nullable |-> TRUE, cell_size |-> 1,
      has_min_max |-> TRUE, has_sum |-> FALSE, type |-> "char"],
     [name |-> "i", var_size |-> FALSE, nullable |-> TRUE, cell_size |-> 8,
      has_min_max |-> TRUE, has_sum |-> TRUE, type |-> "int64"],
     [name |-> "u", var_size |-> FALSE, nullable |-> FALSE, cell_size |-> 8,
      has_min_max |-> TRUE, has_sum |-> TRUE, type |-> "uint64"],
     [name |-> "s", var_size |-> TRUE, nullable |-> TRUE, cell_size |-> 1,
      has_min_max |-> TRUE, has_sum |-> FALSE, type |-> "char"] >>

Schemas ==
  [name \in {"sf", "sv", "sm", "sb", "su"} |->
     [ attributes |->
         IF name = "sm" THEN StatsAttributes
         ELSE << [name |-> "a", var_size |-> TRUE, nullable |-> TRUE,
                  cell_size |-> 1, has_min_max |-> TRUE,
                  has_sum |-> FALSE, type |-> "char"] >>,
       dimensions |->
         IF name = "sb"
         THEN << [name |-> "d", var_size |-> FALSE, coord_size |-> 1,
                  lo |-> 0 - 2 ^ (ShortBits - 1),
                  hi |-> 2 ^ (ShortBits - 1) - 1, extent |-> 1,
                  cell_size |-> 1, has_min_max |-> TRUE, has_sum |-> TRUE,
                  type |-> "int8"] >>
         ELSE IF name = "su"
         THEN << [name |-> "d", var_size |-> FALSE, coord_size |-> 1,
                  lo |-> 1, hi |-> 2 ^ ShortBits - 2, extent |-> 2,
                  cell_size |-> 1, has_min_max |-> TRUE, has_sum |-> TRUE,
                  type |-> "uint8"] >>
         ELSE << [name |-> "d", var_size |-> (name = "sv"),
                  coord_size |-> IF name = "sv" THEN 1 ELSE 4,
                  lo |-> 0, hi |-> 3, extent |-> 2,
                  cell_size |-> 4, has_min_max |-> TRUE,
                  has_sum |-> TRUE,
                  type |-> IF name = "sv" THEN "char"
                           ELSE "int32"] >>,
       capacity |-> 2,
       name_bytes |-> IF name = "sf" THEN <<115, 102>>
                      ELSE IF name = "sv" THEN <<115, 118>>
                      ELSE IF name = "sb" THEN <<115, 98>>
                      ELSE IF name = "su" THEN <<115, 117>>
                      ELSE <<115, 109>> ] ]

attribute_num(sch) == Len(Schemas[sch].attributes)
dim_num(sch) == Len(Schemas[sch].dimensions)
all_dims_fixed(sch) ==
  \A d \in 1..dim_num(sch) : ~Schemas[sch].dimensions[d].var_size

\* Domain::cell_num_per_tile: product of the tile extents
cell_num_per_tile(sch) == Schemas[sch].dimensions[1].extent

coords == "__coords"
timestamps == "__timestamps"
delete_timestamps == "__delete_timestamps"
delete_condition_index == "__delete_condition_index"

\* a build_idx_map that gives the delete fields their indices before the
\* timestamps
build_idx_map_deletes_first(sch, has_ts, has_dm) ==
  LET an == attribute_num(sch)
      dn == dim_num(sch)
      base == an + 1 + dn
      attrs == [n \in {Schemas[sch].attributes[k].name : k \in 1..an} |->
                 (CHOOSE k \in 1..an : Schemas[sch].attributes[k].name = n) - 1]
      crd == [n \in {coords} |-> an]
      dims == [n \in {Schemas[sch].dimensions[k].name : k \in 1..dn} |->
                 an + (CHOOSE k \in 1..dn :
                         Schemas[sch].dimensions[k].name = n)]
      dm == IF has_dm
            THEN [n \in {delete_timestamps, delete_condition_index} |->
                    IF n = delete_timestamps THEN base ELSE base + 1]
            ELSE [n \in {} |-> 0]
      tbase == IF has_dm THEN base + 2 ELSE base
      ts == IF has_ts THEN [n \in {timestamps} |-> tbase]
            ELSE [n \in {} |-> 0]
  IN  attrs @@ crd @@ dims @@ ts @@ dm

\* FragmentMetadata::build_idx_map
build_idx_map(sch, has_ts, has_dm) ==
  LET an == attribute_num(sch)
      dn == dim_num(sch)
      base == an + 1 + dn
      attrs == [n \in {Schemas[sch].attributes[k].name : k \in 1..an} |->
                 (CHOOSE k \in 1..an : Schemas[sch].attributes[k].name = n) - 1]
      crd == [n \in {coords} |-> an]
      dims == [n \in {Schemas[sch].dimensions[k].name : k \in 1..dn} |->
                 an + (CHOOSE k \in 1..dn :
                         Schemas[sch].dimensions[k].name = n)]
      ts == IF has_ts THEN [n \in {timestamps} |-> base]
            ELSE [n \in {} |-> 0]
      dbase == IF has_ts THEN base + 1 ELSE base
      dm == IF has_dm
            THEN [n \in {delete_timestamps, delete_condition_index} |->
                    IF n = delete_timestamps THEN dbase ELSE dbase + 1]
            ELSE [n \in {} |-> 0]
  IN  attrs @@ crd @@ dims @@ ts @@ dm

\* num_dims_and_attrs(): the number of indexed fields
num_dims_and_attrs(fm) == Cardinality(DOMAIN fm.idx_map)

\* ArraySchema lookups by field name
is_attr(sch, n) ==
  \E k \in 1..attribute_num(sch) : Schemas[sch].attributes[k].name = n
is_dim(sch, n) ==
  \E k \in 1..dim_num(sch) : Schemas[sch].dimensions[k].name = n
\* the description of the field n of the schema s
FieldOf(s, n) ==
  IF \E k \in 1..Len(s.attributes) : s.attributes[k].name = n
  THEN LET k == CHOOSE k \in 1..Len(s.attributes) : s.attributes[k].name = n
       IN  [var_size |-> s.attributes[k].var_size,
            nullable |-> s.attributes[k].nullable,
            cell_size |-> s.attributes[k].cell_size,
            has_min_max |-> s.attributes[k].has_min_max,
            has_sum |-> s.attributes[k].has_sum]
  ELSE IF \E k \in 1..Len(s.dimensions) : s.dimensions[k].name = n
  THEN LET k == CHOOSE k \in 1..Len(s.dimensions) : s.dimensions[k].name = n
       IN  [var_size |-> s.dimensions[k].var_size,
            nullable |-> FALSE,
            cell_size |-> s.dimensions[k].cell_size,
            has_min_max |-> s.dimensions[k].has_min_max,
            has_sum |-> s.dimensions[k].has_sum]
  ELSE \* coords and the timestamp / delete pseudo-fields: fixed uint64
       [var_size |-> FALSE, nullable |-> FALSE, cell_size |-> 8,
        has_min_max |-> FALSE, has_sum |-> FALSE]
FieldDesc(sch, n) == FieldOf(Schemas[sch], n)

\* ArraySchema::type: the type of a field; the coordinates have the type
\* of the domain and the timestamp / delete pseudo-fields are uint64
type_of(sch, n) ==
  IF is_attr(sch, n)
  THEN Schemas[sch].attributes[CHOOSE k \in 1..attribute_num(sch) :
                                 Schemas[sch].attributes[k].name = n].type
  ELSE IF is_dim(sch, n)
  THEN Schemas[sch].dimensions[CHOOSE k \in 1..dim_num(sch) :
                                 Schemas[sch].dimensions[k].name = n].type
  ELSE IF n = coords THEN Schemas[sch].dimensions[1].type
  ELSE "uint64"

\* The field name behind an index of idx_map_
NameOf(fm, i) == CHOOSE n \in DOMAIN fm.idx_map : fm.idx_map[n] = i

\* Format versions: the library writes write_version; stores exist from 7
MinStoreVersion == 7
write_version == 16

(***************************************************************************)
(* Dimension / Domain arithmetic on integer coordinates of type T          *)
(***************************************************************************)
\* the subtraction v - domain_low of tile_idx is done in T when T is not
\* promoted: for a signed T it overflows when the difference is not a
\* value of T, which is undefined
tile_idx_overflows(T, v, domain_low) ==
  ~IsPromoted(T) /\ IsSignedType(T) /\ (v - domain_low) \notin ValuesOf(T)

\* Dimension::tile_idx (integral): static_cast<unsigned_t>(v - domain_low)
\* / static_cast<unsigned_t>(tile_extent); where the subtraction overflows
\* this is the result of a build that wraps
tile_idx(T, v, domain_low, tile_extent) ==
  AsUnsigned(v - domain_low, T) \div AsUnsigned(tile_extent, T)

\* Dimension::round_to_tile (integral): the operands are cast to unsigned_t
\* one by one; the promoted ones are then subtracted, divided, multiplied
\* and added as int, the others modulo 2^w
round_to_tile(T, v, domain_low, tile_extent) ==
  LET uv == AsUnsigned(v, T)
      ul == AsUnsigned(domain_low, T)
      ue == AsUnsigned(tile_extent, T)
  IN  IF IsPromoted(T)
      THEN AsType(TruncDiv(uv - ul, ue) * ue + ul, T)
      ELSE AsType(AsUnsigned((AsUnsigned(uv - ul, T) \div ue) * ue, T) + ul, T)

\* Dimension::tile_coord_low (integral): the sum is a uint64_t, returned
\* as T
tile_coord_low(T, k, domain_low, tile_extent) ==
  AsType(AsUnsigned(domain_low, T) + k * AsUnsigned(tile_extent, T), T)

\* a tile_coord_high that returns the maximum of the type when the extent
\* is that maximum less the low end of the domain
tile_coord_high_of_the_range(T, k, domain_low, tile_extent) ==
  IF tile_extent = numeric_limits_max(T) - domain_low
  THEN numeric_limits_max(T)
  ELSE AsType(AsUnsigned(domain_low, T)
              + (k + 1) * AsUnsigned(tile_extent, T) - 1, T)

\* Dimension::tile_coord_high (integral)
tile_coord_high(T, k, domain_low, tile_extent) ==
  IF AsUnsigned(tile_extent, T) = Pow2(BitsOf(T)) - 1
  THEN numeric_limits_max(T)
       - (IF domain_low = numeric_limits_min(T) THEN 1 ELSE 0)
  ELSE AsType(AsUnsigned(domain_low, T)
              + (k + 1) * AsUnsigned(tile_extent, T) - 1, T)

\* Domain::crop_ndrange: clamp every range to the dimension domain
crop_ndrange(sch, nd) ==
  [d \in 1..Len(nd) |->
     IF Schemas[sch].dimensions[d].var_size THEN nd[d]
     ELSE << Max2(nd[d][1], Schemas[sch].dimensions[d].lo),
             Min2(nd[d][2], Schemas[sch].dimensions[d].hi) >>]

\* Domain::expand_to_tiles: align every range to tile boundaries
expand_to_tiles(sch, nd) ==
  [d \in 1..Len(nd) |->
     LET dl == Schemas[sch].dimensions[d].lo
         ex == Schemas[sch].dimensions[d].extent
         T == Schemas[sch].dimensions[d].type
     IN  IF Schemas[sch].dimensions[d].var_size THEN nd[d]
         ELSE << tile_coord_low(T, tile_idx(T, nd[d][1], dl, ex), dl, ex),
                 tile_coord_high(T, tile_idx(T, nd[d][2], dl, ex), dl, ex) >>]

\* Domain::tile_num(ndrange): tiles intersecting the range (one dimension)
domain_tile_num(sch, nd) ==
  IF nd = <<>> THEN 0
  ELSE LET dl == Schemas[sch].dimensions[1].lo
           ex == Schemas[sch].dimensions[1].extent
           T == Schemas[sch].dimensions[1].type
       IN  tile_idx(T, nd[1][2], dl, ex) - tile_idx(T, nd[1][1], dl, ex) + 1

(***************************************************************************)
(* RTree (leaves = one MBR per tile; levels = internal levels in memory)   *)
(***************************************************************************)
EmptyRTree == [leaves |-> <<>>, built |-> FALSE, buffer_size |-> 0]
rtree_set_leaf_num(rt, n) ==
  [rt EXCEPT !.leaves = Resize(rt.leaves, n, <<>>)]
rtree_set_leaf(rt, tile, mbr) == [rt EXCEPT !.leaves[tile + 1] = mbr]

(***************************************************************************)
(* The FragmentMetadata object                                             *)
(***************************************************************************)
NoOffsets ==
  [rtree |-> 0, tile_offsets |-> <<>>, tile_var_offsets |-> <<>>,
   tile_var_sizes |-> <<>>, tile_validity_offsets |-> <<>>,
   tile_min_offsets |-> <<>>, tile_max_offsets |-> <<>>,
   tile_sum_offsets |-> <<>>, tile_null_count_offsets |-> <<>>,
   fragment_min_max_sum_null_count_offset |-> 0,
   processed_conditions_offsets |-> 0]

NoneLoaded ==
  [footer |-> FALSE, rtree |-> FALSE, tile_offsets |-> <<>>,
   tile_var_offsets |-> <<>>, tile_var_sizes |-> <<>>,
   tile_validity_offsets |-> <<>>, tile_min |-> <<>>, tile_max |-> <<>>,
   tile_sum |-> <<>>, tile_null_count |-> <<>>,
   fragment_min_max_sum_null_count |-> FALSE,
   processed_conditions |-> FALSE]

\* FragmentMetadata::FragmentMetadata(..., array_schema, ..., dense,
\*                                    has_timestamps, has_deletes_meta)
FragmentMetadata(sch, ver, dense, has_ts, has_dm) ==
  [ array_schema |-> sch, array_schema_name |-> sch, dense |-> dense,
    footer_size |-> 0, footer_offset |-> 0,
    has_consolidated_footer |-> FALSE, last_tile_cell_num |-> 0,
    has_timestamps |-> has_ts, has_delete_meta |-> has_dm,
    sparse_tile_num |-> 0, meta_file_size |-> 0, rtree |-> EmptyRTree,
    tile_index_base |-> 0, version |-> ver, fragment_uri_version |-> ver,
    idx_map |-> build_idx_map(sch, has_ts, has_dm),
    non_empty_domain |-> <<>>, domain |-> <<>>,
    file_sizes |-> <<>>, file_var_sizes |-> <<>>,
    file_validity_sizes |-> <<>>,
    tile_offsets |-> <<>>, tile_var_offsets |-> <<>>,
    tile_var_sizes |-> <<>>, tile_validity_offsets |-> <<>>,
    tile_min_buffer |-> <<>>, tile_min_var_buffer |-> <<>>,
    tile_max_buffer |-> <<>>, tile_max_var_buffer |-> <<>>,
    tile_sums |-> <<>>, tile_null_counts |-> <<>>,
    fragment_mins |-> <<>>, fragment_maxs |-> <<>>,
    fragment_sums |-> <<>>, fragment_null_counts |-> <<>>,
    processed_conditions |-> <<>>,
    gt_offsets |-> NoOffsets, loaded_metadata |-> NoneLoaded ]

\* an init_domain that keeps the range it is handed
init_domain_uncropped(fm, non_empty_domain) ==
  IF fm.dense
  THEN [fm EXCEPT !.non_empty_domain = non_empty_domain,
                  !.domain = expand_to_tiles(fm.array_schema,
                                             non_empty_domain)]
  ELSE fm

\* FragmentMetadata::init_domain
init_domain(fm, non_empty_domain) ==
  IF fm.dense
  THEN LET ned == crop_ndrange(fm.array_schema, non_empty_domain)
       IN  [fm EXCEPT !.non_empty_domain = ned,
                      !.domain = expand_to_tiles(fm.array_schema, ned)]
  ELSE fm

\* FragmentMetadata::init
init(fm, non_empty_domain) ==
  LET num == num_dims_and_attrs(fm)
      f0 == init_domain(fm, non_empty_domain)
      zero == [i \in 0..(num - 1) |-> 0]
  IN  [f0 EXCEPT
        !.last_tile_cell_num = 0,
        !.tile_offsets = ResizeOuter(@, num, <<>>),
        !.file_sizes = zero,
        !.tile_var_offsets = ResizeOuter(@, num, <<>>),
        !.file_var_sizes = zero,
        !.tile_var_sizes = ResizeOuter(@, num, <<>>),
        !.tile_validity_offsets = ResizeOuter(@, num, <<>>),
        !.file_validity_sizes = zero,
        !.tile_min_buffer = ResizeOuter(@, num, <<>>),
        !.tile_min_var_buffer = ResizeOuter(@, num, <<>>),
        !.tile_max_buffer = ResizeOuter(@, num, <<>>),
        !.tile_max_var_buffer = ResizeOuter(@, num, <<>>),
        !.tile_sums = ResizeOuter(@, num, <<>>),
        !.tile_null_counts = ResizeOuter(@, num, <<>>),
        !.fragment_mins = ResizeOuter(@, num, <<>>),
        !.fragment_maxs = ResizeOuter(@, num, <<>>),
        !.fragment_sums = ResizeOuter(@, num, 0),
        !.fragment_null_counts = ResizeOuter(@, num, 0)]

\* FragmentMetadata::tile_num
tile_num(fm) ==
  IF fm.dense THEN domain_tile_num(fm.array_schema, fm.domain)
  ELSE fm.sparse_tile_num

\* FragmentMetadata::set_num_tiles.  Per-tile statistics buffers hold one
\* entry per tile (cell_size bytes each in the code).
set_num_tiles(fm, num_tiles) ==
  LET sch == fm.array_schema
      stats(i) == ~fm.dense \/ ~is_dim(sch, NameOf(fm, i))
      desc(i) == FieldDesc(sch, NameOf(fm, i))
      grow(f) == [i \in DOMAIN f |-> Resize(f[i], num_tiles, 0)]
      f1 == [fm EXCEPT
               !.tile_offsets = grow(@),
               !.tile_var_offsets = grow(@),
               !.tile_var_sizes = grow(@),
               !.tile_validity_offsets = grow(@),
               !.tile_min_buffer =
                  [i \in DOMAIN @ |->
                     IF stats(i) /\ desc(i).has_min_max
                     THEN Resize(@[i], num_tiles, 0) ELSE @[i]],
               !.tile_max_buffer =
                  [i \in DOMAIN @ |->
                     IF stats(i) /\ desc(i).has_min_max
                     THEN Resize(@[i], num_tiles, 0) ELSE @[i]],
               !.tile_sums =
                  [i \in DOMAIN @ |->
                     IF stats(i) /\ desc(i).has_sum /\ ~desc(i).var_size
                     THEN Resize(@[i], num_tiles, 0) ELSE @[i]],
               !.tile_null_counts =
                  [i \in DOMAIN @ |->
                     IF stats(i) /\ desc(i).nullable
                     THEN Resize(@[i], num_tiles, 0) ELSE @[i]]]
  IN  IF fm.dense THEN f1
      ELSE [f1 EXCEPT !.rtree = rtree_set_leaf_num(@, num_tiles),
                      !.sparse_tile_num = num_tiles]

\* FragmentMetadata::set_tile_offset
set_tile_offset_late(fm, name, tid, step) ==
  LET idx == fm.idx_map[name]
      t == tid + fm.tile_index_base
  IN  [fm EXCEPT !.tile_offsets[idx][t + 1] = fm.file_sizes[idx] + step,
                 !.file_sizes[idx] = @ + step]
set_tile_offset(fm, name, tid, step) ==
  LET idx == fm.idx_map[name]
      t == tid + fm.tile_index_base
  IN  [fm EXCEPT !.tile_offsets[idx][t + 1] = fm.file_sizes[idx],
                 !.file_sizes[idx] = @ + step]

\* FragmentMetadata::set_tile_var_offset
set_tile_var_offset(fm, name, tid, step) ==
  LET idx == fm.idx_map[name]
      t == tid + fm.tile_index_base
  IN  [fm EXCEPT !.tile_var_offsets[idx][t + 1] = fm.file_var_sizes[idx],
                 !.file_var_sizes[idx] = @ + step]

\* FragmentMetadata::set_tile_var_size
set_tile_var_size(fm, name, tid, size) ==
  LET idx == fm.idx_map[name]
      t == tid + fm.tile_index_base
  IN  [fm EXCEPT !.tile_var_sizes[idx][t + 1] = size]

\* FragmentMetadata::set_tile_validity_offset
set_tile_validity_offset(fm, name, tid, step) ==
  LET idx == fm.idx_map[name]
      t == tid + fm.tile_index_base
  IN  [fm EXCEPT
        !.tile_validity_offsets[idx][t + 1] = fm.file_validity_sizes[idx],
        !.file_validity_sizes[idx] = @ + step]

(***************************************************************************)
(* Ranges.  A fixed-size range is <<low, high>> (coord_size bytes each);   *)
(* a var-size range is <<start, end>>, two byte strings.                   *)
(***************************************************************************)
RECURSIVE LexLeq(_, _)
LexLeq(a, b) ==
  IF a = <<>> THEN TRUE
  ELSE IF b = <<>> THEN FALSE
  ELSE IF Head(a) # Head(b) THEN Head(a) < Head(b)
  ELSE LexLeq(Tail(a), Tail(b))

\* Domain::expand_ndrange: the union of two NDRanges, dimension by dimension
expand_ndrange(sch, mbr, nd) ==
  [d \in 1..Len(nd) |->
     IF Schemas[sch].dimensions[d].var_size
     THEN << IF LexLeq(mbr[d][1], nd[d][1]) THEN mbr[d][1] ELSE nd[d][1],
             IF LexLeq(nd[d][2], mbr[d][2]) THEN mbr[d][2] ELSE nd[d][2] >>
     ELSE << Min2(mbr[d][1], nd[d][1]), Max2(mbr[d][2], nd[d][2]) >>]

\* an expansion that takes the MBR for the non-empty domain
expand_non_empty_domain_to_mbr(fm, mbr) ==
  [fm EXCEPT !.non_empty_domain = mbr]

\* FragmentMetadata::expand_non_empty_domain
expand_non_empty_domain(fm, mbr) ==
  IF fm.non_empty_domain = <<>>
  THEN [fm EXCEPT !.non_empty_domain = mbr]
  ELSE [fm EXCEPT !.non_empty_domain = expand_ndrange(fm.array_schema, mbr, @)]

\* FragmentMetadata::set_mbr
set_mbr(fm, tile, mbr) ==
  expand_non_empty_domain(
    [fm EXCEPT !.rtree = rtree_set_leaf(@, tile + fm.tile_index_base, mbr)],
    mbr)

\* FragmentMetadata::set_last_tile_cell_num
set_last_tile_cell_num(fm, cell_num) ==
  [fm EXCEPT !.last_tile_cell_num = cell_num]

(***************************************************************************)
(* Serializer: a buffer is a sequence of little-endian items               *)
(* <<width in bytes, value, field>>; field names what the writer meant.    *)
(***************************************************************************)
U(w, v, lbl) == << <<w, v, lbl>> >>
U64s(vs, lbl) == [k \in 1..Len(vs) |-> <<8, vs[k], lbl>>]
Items(w, vs, lbl) == [k \in 1..Len(vs) |-> <<w, vs[k], lbl>>]
RawBytes(bs, lbl) == [k \in 1..Len(bs) |-> <<1, bs[k], lbl>>]
FnSeq(f, num) == [k \in 1..num |-> f[k - 1]]
BoolByte(b) == IF b THEN 1 ELSE 0

\* SizeComputationSerializer::size
SizeOf(ts) == SumSeq([k \in 1..Len(ts) |-> ts[k][1]])

\* NDRange bytes of one range (footer non-empty domain, R-tree leaves)
write_range(dim, r, lbl) ==
  IF dim.var_size
  THEN U(8, Len(r[1]) + Len(r[2]), lbl) \o U(8, Len(r[1]), lbl)
       \o RawBytes(r[1] \o r[2], lbl)
  ELSE U(dim.coord_size, r[1], lbl) \o U(dim.coord_size, r[2], lbl)

\* FragmentMetadata::write_version
fm_write_version(fm) == U(4, fm.version, "version")

\* FragmentMetadata::write_array_schema_name
write_array_schema_name(fm) ==
  LET bs == Schemas[fm.array_schema_name].name_bytes
  IN  U(8, Len(bs), "array_schema_name") \o RawBytes(bs, "array_schema_name")

\* FragmentMetadata::write_dense
write_dense(fm) == U(1, BoolByte(fm.dense), "dense")

\* FragmentMetadata::write_non_empty_domain
write_non_empty_domain(fm) ==
  LET dims == Schemas[fm.array_schema].dimensions
      lbl == "non_empty_domain"
  IN  U(1, BoolByte(fm.non_empty_domain = <<>>), lbl)
      \o (IF fm.non_empty_domain = <<>>
          THEN RawBytes(Zeros(2 * Len(dims) * dims[1].coord_size), lbl)
          ELSE Concat([d \in 1..Len(dims) |->
                         write_range(dims[d], fm.non_empty_domain[d], lbl)]))

\* FragmentMetadata::write_sparse_tile_num
write_sparse_tile_num(fm) == U(8, fm.sparse_tile_num, "sparse_tile_num")

\* FragmentMetadata::write_last_tile_cell_num
write_last_tile_cell_num(fm) ==
  LET per_tile == IF fm.dense THEN cell_num_per_tile(fm.array_schema)
                  ELSE Schemas[fm.array_schema].capacity
  IN  U(8, IF fm.last_tile_cell_num = 0 THEN per_tile
           ELSE fm.last_tile_cell_num, "last_tile_cell_num")

\* FragmentMetadata::write_has_timestamps / write_has_delete_meta
write_has_timestamps(fm) == U(1, BoolByte(fm.has_timestamps), "has_timestamps")
write_has_delete_meta(fm) ==
  U(1, BoolByte(fm.has_delete_meta), "has_delete_meta")

\* FragmentMetadata::write_file_sizes / _var_sizes / _validity_sizes
write_file_sizes(fm) ==
  U64s(FnSeq(fm.file_sizes, num_dims_and_attrs(fm)), "file_sizes")
write_file_var_sizes(fm) ==
  U64s(FnSeq(fm.file_var_sizes, num_dims_and_attrs(fm)), "file_var_sizes")
write_file_validity_sizes(fm) ==
  IF fm.version <= 6 THEN <<>>
  ELSE U64s(FnSeq(fm.file_validity_sizes, num_dims_and_attrs(fm)),
            "file_validity_sizes")

\* FragmentMetadata::write_generic_tile_offsets
write_generic_tile_offsets(fm) ==
  LET num == num_dims_and_attrs(fm)
      g == fm.gt_offsets
      per(f, lbl) == U64s(FnSeq(f, num), lbl)
  IN  U(8, g.rtree, "rtree_offset")
      \o per(g.tile_offsets, "tile_offsets_offsets")
      \o per(g.tile_var_offsets, "tile_var_offsets_offsets")
      \o per(g.tile_var_sizes, "tile_var_sizes_offsets")
      \o (IF fm.version >= 7
          THEN per(g.tile_validity_offsets, "tile_validity_offsets_offsets")
          ELSE <<>>)
      \o (IF fm.version >= 11
          THEN per(g.tile_min_offsets, "tile_min_offsets") ELSE <<>>)
      \o (IF fm.version >= 11
          THEN per(g.tile_max_offsets, "tile_max_offsets") ELSE <<>>)
      \o (IF fm.version >= 11
          THEN per(g.tile_sum_offsets, "tile_sum_offsets") ELSE <<>>)
      \o (IF fm.version >= 11
          THEN per(g.tile_null_count_offsets, "tile_null_count_offsets")
          ELSE <<>>)
      \o (IF fm.version >= 11
          THEN U(8, g.fragment_min_max_sum_null_count_offset,
                 "fragment_min_max_sum_null_count_offset")
          ELSE <<>>)
      \o (IF fm.version >= 16
          THEN U(8, g.processed_conditions_offsets,
                 "processed_conditions_offsets")
          ELSE <<>>)

\* FragmentMetadata::write_footer
write_footer(fm) ==
  fm_write_version(fm)
  \o (IF fm.version >= 10 THEN write_array_schema_name(fm) ELSE <<>>)
  \o write_dense(fm)
  \o write_non_empty_domain(fm)
  \o write_sparse_tile_num(fm)
  \o write_last_tile_cell_num(fm)
  \o (IF fm.version >= 14 THEN write_has_timestamps(fm) ELSE <<>>)
  \o (IF fm.version >= 15 THEN write_has_delete_meta(fm) ELSE <<>>)
  \o write_file_sizes(fm)
  \o write_file_var_sizes(fm)
  \o write_file_validity_sizes(fm)
  \o write_generic_tile_offsets(fm)

(***************************************************************************)
(* Section payloads and the metadata file.  The file is a sequence of      *)
(* blobs; a generic tile occupies its header plus its payload.             *)
(***************************************************************************)
generic_tile_header_size == 34

\* bytes per entry of the fixed min / max buffer of a field
min_max_cell_size(fm, idx) ==
  LET desc == FieldDesc(fm.array_schema, NameOf(fm, idx))
  IN  IF desc.var_size THEN 8 ELSE desc.cell_size

\* RTree::build_tree and RTree::serialize
rtree_build_tree(rt) == [rt EXCEPT !.built = TRUE]
rtree_serialize(sch, rt) ==
  LET dims == Schemas[sch].dimensions
  IN  U(8, Len(rt.leaves), "rtree")
      \o Concat([m \in 1..Len(rt.leaves) |->
                   Concat([d \in 1..Len(dims) |->
                             write_range(dims[d], rt.leaves[m][d], "rtree")])])

\* FragmentMetadata::write_tile_offsets and its three siblings
write_tile_offsets(fm, idx) ==
  U(8, Len(fm.tile_offsets[idx]), "tile_offsets")
  \o U64s(fm.tile_offsets[idx], "tile_offsets")
write_tile_var_offsets(fm, idx) ==
  U(8, Len(fm.tile_var_offsets[idx]), "tile_var_offsets")
  \o U64s(fm.tile_var_offsets[idx], "tile_var_offsets")
write_tile_var_sizes(fm, idx) ==
  U(8, Len(fm.tile_var_sizes[idx]), "tile_var_sizes")
  \o U64s(fm.tile_var_sizes[idx], "tile_var_sizes")
write_tile_validity_offsets(fm, idx) ==
  U(8, Len(fm.tile_validity_offsets[idx]), "tile_validity_offsets")
  \o U64s(fm.tile_validity_offsets[idx], "tile_validity_offsets")

\* FragmentMetadata::write_tile_mins / write_tile_maxs
write_tile_mins(fm, idx) ==
  LET w == min_max_cell_size(fm, idx)
  IN  U(8, Len(fm.tile_min_buffer[idx]) * w, "tile_min")
      \o U(8, Len(fm.tile_min_var_buffer[idx]), "tile_min")
      \o Items(w, fm.tile_min_buffer[idx], "tile_min")
      \o RawBytes(fm.tile_min_var_buffer[idx], "tile_min")
write_tile_maxs(fm, idx) ==
  LET w == min_max_cell_size(fm, idx)
  IN  U(8, Len(fm.tile_max_buffer[idx]) * w, "tile_max")
      \o U(8, Len(fm.tile_max_var_buffer[idx]), "tile_max")
      \o Items(w, fm.tile_max_buffer[idx], "tile_max")
      \o RawBytes(fm.tile_max_var_buffer[idx], "tile_max")

\* FragmentMetadata::write_tile_sums / write_tile_null_counts
write_tile_sums(fm, idx) ==
  U(8, Len(fm.tile_sums[idx]), "tile_sum")
  \o U64s(fm.tile_sums[idx], "tile_sum")
write_tile_null_counts(fm, idx) ==
  U(8, Len(fm.tile_null_counts[idx]), "tile_null_count")
  \o U64s(fm.tile_null_counts[idx], "tile_null_count")

\* the serializer of FragmentMetadata::store_fragment_min_max_sum_null_count
write_fragment_min_max_sum_null_count(fm, num) ==
  LET lbl == "fragment_min_max_sum_null_count"
  IN  Concat([k \in 1..num |->
        U(8, Len(fm.fragment_mins[k - 1]), lbl)
        \o RawBytes(fm.fragment_mins[k - 1], lbl)
        \o U(8, Len(fm.fragment_maxs[k - 1]), lbl)
        \o RawBytes(fm.fragment_maxs[k - 1], lbl)
        \o U(8, fm.fragment_sums[k - 1], lbl)
        \o U(8, fm.fragment_null_counts[k - 1], lbl)])

\* the serializer of FragmentMetadata::store_processed_conditions
write_processed_conditions(fm) ==
  LET lbl == "processed_conditions"
  IN  U(8, Len(fm.processed_conditions), lbl)
      \o Concat([k \in 1..Len(fm.processed_conditions) |->
                   U(8, Len(fm.processed_conditions[k]), lbl)
                   \o RawBytes(fm.processed_conditions[k], lbl)])

\* the payload of one section
SectionPayload(fm, kind, idx) ==
  CASE kind = "rtree" -> rtree_serialize(fm.array_schema, fm.rtree)
    [] kind = "tile_offsets" -> write_tile_offsets(fm, idx)
    [] kind = "tile_var_offsets" -> write_tile_var_offsets(fm, idx)
    [] kind = "tile_var_sizes" -> write_tile_var_sizes(fm, idx)
    [] kind = "tile_validity_offsets" -> write_tile_validity_offsets(fm, idx)
    [] kind = "tile_min" -> write_tile_mins(fm, idx)
    [] kind = "tile_max" -> write_tile_maxs(fm, idx)
    [] kind = "tile_sum" -> write_tile_sums(fm, idx)
    [] kind = "tile_null_count" -> write_tile_null_counts(fm, idx)
    [] kind = "fragment_min_max_sum_null_count" ->
         write_fragment_min_max_sum_null_count(fm, num_dims_and_attrs(fm))
    [] kind = "processed_conditions" -> write_processed_conditions(fm)

\* GenericTileIO::write_generic: the blob appended and the bytes it takes
write_generic(sec, data) ==
  [type |-> "generic", sec |-> sec, data |-> data,
   nbytes |-> generic_tile_header_size + SizeOf(data)]

\* VFS::write of a raw buffer
vfs_write(sec, data) ==
  [type |-> "raw", sec |-> sec, data |-> data, nbytes |-> SizeOf(data)]

\* bytes of the file before its k-th blob
FileOffset(f, k) == SumSeq([j \in 1..(k - 1) |-> f[j].nbytes])

\* the name of the gt_offsets_ member of a section
GtMember(kind) ==
  CASE kind = "tile_min" -> "tile_min_offsets"
    [] kind = "tile_max" -> "tile_max_offsets"
    [] kind = "tile_sum" -> "tile_sum_offsets"
    [] kind = "tile_null_count" -> "tile_null_count_offsets"
    [] kind = "fragment_min_max_sum_null_count" ->
         "fragment_min_max_sum_null_count_offset"
    [] kind = "processed_conditions" -> "processed_conditions_offsets"
    [] OTHER -> kind

PerFieldKinds ==
  {"tile_offsets", "tile_var_offsets", "tile_var_sizes",
   "tile_validity_offsets", "tile_min", "tile_max", "tile_sum",
   "tile_null_count"}

\* the offset recorded in gt_offsets_ for a section
GtOffsetOf(f, sec) ==
  IF sec[1] \in PerFieldKinds THEN f.gt_offsets[GtMember(sec[1])][sec[2]]
  ELSE f.gt_offsets[GtMember(sec[1])]

\* gt_offsets_.<member> = offset (the member is resized before its loop)
set_gt_offset(fm, kind, idx, offset) ==
  IF kind \in PerFieldKinds
  THEN [fm EXCEPT !.gt_offsets[GtMember(kind)] =
          [ResizeOuter(@, num_dims_and_attrs(fm), 0) EXCEPT ![idx] = offset]]
  ELSE [fm EXCEPT !.gt_offsets[GtMember(kind)] = offset]

\* offset += nbytes
advance_offset_stuck(offset, nbytes) == offset
advance_offset(offset, nbytes) == offset + nbytes

\* the sections each store_* routine writes, in its order
PerField(fm, kind) == [k \in 1..num_dims_and_attrs(fm) |-> <<kind, k - 1>>]

store_v7_v10(fm) ==
  << <<"rtree", 0>> >>
  \o PerField(fm, "tile_offsets") \o PerField(fm, "tile_var_offsets")
  \o PerField(fm, "tile_var_sizes") \o PerField(fm, "tile_validity_offsets")

store_v11(fm) ==
  << <<"rtree", 0>> >>
  \o PerField(fm, "tile_offsets") \o PerField(fm, "tile_var_offsets")
  \o PerField(fm, "tile_var_sizes") \o PerField(fm, "tile_validity_offsets")
  \o PerField(fm, "tile_min") \o PerField(fm, "tile_max")
  \o PerField(fm, "tile_sum") \o PerField(fm, "tile_null_count")

store_v12_v14(fm) ==
  << <<"rtree", 0>> >>
  \o PerField(fm, "tile_offsets") \o PerField(fm, "tile_var_offsets")
  \o PerField(fm, "tile_var_sizes") \o PerField(fm, "tile_validity_offsets")
  \o PerField(fm, "tile_min") \o PerField(fm, "tile_max")
  \o PerField(fm, "tile_sum") \o PerField(fm, "tile_null_count")
  \o << <<"fragment_min_max_sum_null_count", 0>> >>

store_v15_or_higher(fm) ==
  << <<"rtree", 0>> >>
  \o PerField(fm, "tile_offsets") \o PerField(fm, "tile_var_offsets")
  \o PerField(fm, "tile_var_sizes") \o PerField(fm, "tile_validity_offsets")
  \o PerField(fm, "tile_min") \o PerField(fm, "tile_max")
  \o PerField(fm, "tile_sum") \o PerField(fm, "tile_null_count")
  \o << <<"fragment_min_max_sum_null_count", 0>> >>
  \o << <<"processed_conditions", 0>> >>

\* FragmentMetadata::store: the routine chosen for the version
store(fm) ==
  IF fm.version <= 10 THEN store_v7_v10(fm)
  ELSE IF fm.version = 11 THEN store_v11(fm)
  ELSE IF fm.version <= 14 THEN store_v12_v14(fm)
  ELSE store_v15_or_higher(fm)

\* one section of store(): its offset is recorded, then it is written; the
\* R-tree is built when it is stored
store_section(f, sec, offset) ==
  LET f1 == set_gt_offset(f, sec[1], sec[2], offset)
      f2 == IF sec[1] = "rtree"
            THEN [f1 EXCEPT !.rtree = rtree_build_tree(@)] ELSE f1
  IN  [f |-> f2, blob |-> write_generic(sec, SectionPayload(f2, sec[1], sec[2]))]

\* FragmentMetadata::write_footer_to_file: the footer, then its size
footer_has_trailer(fm) ==
  ~all_dims_fixed(fm.array_schema) \/ fm.version >= 10
write_footer_to_file(fm, tile) ==
  << vfs_write(<<"footer", 0>>, tile) >>
  \o (IF footer_has_trailer(fm)
      THEN << vfs_write(<<"footer_size", 0>>,
                        U(8, SizeOf(tile), "footer_size")) >>
      ELSE <<>>)

(***************************************************************************)
(* Deserializer.  Bytes(items) is the little-endian image of a buffer;     *)
(* a read beyond the end of the buffer throws.  Stored values stay below   *)
(* 2^24; a read that yields more (only possible from misaligned bytes) is  *)
(* reported as Huge.                                                       *)
(***************************************************************************)
Huge == 256 * 256 * 256

LEByte(v, k) ==
  IF k = 1 THEN v % 256
  ELSE IF k = 2 THEN (v \div 256) % 256
  ELSE IF k = 3 THEN (v \div (256 * 256)) % 256
  ELSE IF v < 0 THEN 255 ELSE 0

RECURSIVE Bytes(_)
Bytes(items) ==
  IF items = <<>> THEN <<>>
  ELSE IF Len(items) = 1
  THEN [k \in 1..items[1][1] |-> LEByte(items[1][2], k)]
  ELSE Bytes(SubSeq(items, 1, Len(items) \div 2))
       \o Bytes(SubSeq(items, Len(items) \div 2 + 1, Len(items)))

RdOK(buf, pos, w) == pos + w <= Len(buf)
RdVal(buf, pos, w) ==
  IF \E k \in 4..w : buf[pos + k] # 0 THEN Huge
  ELSE buf[pos + 1]
       + (IF w >= 2 THEN 256 * buf[pos + 2] ELSE 0)
       + (IF w >= 3 THEN 256 * 256 * buf[pos + 3] ELSE 0)
\* the same bytes read as a two's complement integer
RdSigned(buf, pos, w) ==
  IF buf[pos + w] < 128 THEN RdVal(buf, pos, w)
  ELSE IF \E k \in 4..w : buf[pos + k] # 255 THEN 0 - Huge
  ELSE 0 - (1 + (255 - buf[pos + 1])
              + (IF w >= 2 THEN 256 * (255 - buf[pos + 2]) ELSE 0)
              + (IF w >= 3 THEN 256 * 256 * (255 - buf[pos + 3]) ELSE 0))
RdBytes(buf, pos, n) == [k \in 1..n |-> buf[pos + k]]
RdU64s(buf, pos, num) == [i \in 0..(num - 1) |-> RdVal(buf, pos + 8 * i, 8)]

\* a deserialization in progress: the object, the read position, whether
\* no read has thrown, and the fields read so far
FailWith(s, e) == [s EXCEPT !.ok = FALSE, !.err = e]
Fail(s) == FailWith(s, "deserializer")
Adv(s, w, lbl) == [s EXCEPT !.pos = @ + w, !.fields = Append(@, lbl)]

\* the schema name a fragment of a version carries: array schemas older
\* than version 10 all bear the fixed legacy name
array_schema_filename == "__array_schema.tdb"
SchemaName(sch, ver) == IF ver < 10 THEN array_schema_filename ELSE sch
NameFromBytes(bs) ==
  IF \E k \in DOMAIN Schemas : Schemas[k].name_bytes = bs
  THEN CHOOSE k \in DOMAIN Schemas : Schemas[k].name_bytes = bs
  ELSE "?"

\* FragmentMetadata::set_array_schema
set_array_schema(f, sch) ==
  [f EXCEPT !.array_schema = sch,
            !.idx_map = build_idx_map(sch, f.has_timestamps,
                                      f.has_delete_meta)]

\* FragmentMetadata::load_version
load_version(s, buf) ==
  IF ~s.ok THEN s
  ELSE IF ~RdOK(buf, s.pos, 4) THEN Fail(s)
  ELSE [Adv(s, 4, "version") EXCEPT !.f.version = RdVal(buf, s.pos, 4)]

\* FragmentMetadata::load_array_schema_name
load_array_schema_name(s, buf) ==
  IF ~s.ok THEN s
  ELSE IF ~RdOK(buf, s.pos, 8) THEN Fail(s)
  ELSE LET size == RdVal(buf, s.pos, 8)
       IN  IF size = 0 \/ ~RdOK(buf, s.pos + 8, size) THEN Fail(s)
           ELSE [Adv(s, 8 + size, "array_schema_name") EXCEPT
                   !.f.array_schema_name =
                      NameFromBytes(RdBytes(buf, s.pos + 8, size))]

\* load_footer: the schema lookup after the name is known
lookup_schema(s, array_schemas) ==
  IF ~s.ok THEN s
  ELSE IF s.f.array_schema_name \in DOMAIN array_schemas
  THEN [s EXCEPT !.f = set_array_schema(@,
                          array_schemas[s.f.array_schema_name])]
  ELSE FailWith(s, "schema")

\* FragmentMetadata::load_dense
load_dense(s, buf) ==
  IF ~s.ok THEN s
  ELSE IF ~RdOK(buf, s.pos, 1) THEN Fail(s)
  ELSE [Adv(s, 1, "dense") EXCEPT !.f.dense = (RdVal(buf, s.pos, 1) # 0)]

\* the bytes of a coordinate read as a value of the dimension's type
RdCoord(buf, pos, dim) ==
  IF IsSignedType(dim.type) THEN RdSigned(buf, pos, dim.coord_size)
  ELSE RdVal(buf, pos, dim.coord_size)

\* one range of the non-empty domain: <<ok, range, bytes consumed>>
read_range(dim, buf, pos) ==
  IF ~dim.var_size
  THEN IF ~RdOK(buf, pos, 2 * dim.coord_size) THEN <<FALSE, <<>>, 0>>
       ELSE <<TRUE, << RdCoord(buf, pos, dim),
                       RdCoord(buf, pos + dim.coord_size, dim) >>,
              2 * dim.coord_size>>
  ELSE IF ~RdOK(buf, pos, 16) THEN <<FALSE, <<>>, 0>>
  ELSE LET r_size == RdVal(buf, pos, 8)
           start_size == RdVal(buf, pos + 8, 8)
       IN  IF ~RdOK(buf, pos + 16, r_size) \/ start_size > r_size
           THEN <<FALSE, <<>>, 0>>
           ELSE <<TRUE, << RdBytes(buf, pos + 16, start_size),
                           RdBytes(buf, pos + 16 + start_size,
                                   r_size - start_size) >>,
                  16 + r_size>>

RECURSIVE read_ndrange(_, _, _, _)
read_ndrange(dims, buf, pos, d) ==
  IF d > Len(dims) THEN <<TRUE, <<>>, 0>>
  ELSE LET r == read_range(dims[d], buf, pos)
       IN  IF ~r[1] THEN r
           ELSE LET rest == read_ndrange(dims, buf, pos + r[3], d + 1)
                IN  IF ~rest[1] THEN rest
                    ELSE <<TRUE, <<r[2]>> \o rest[2], r[3] + rest[3]>>

\* what a read past the end of a buffer yields
Undefined == << <<"undefined", "undefined">> >>

\* the ranges of coord_size bytes each, copied out of temp
RECURSIVE RangesOf(_, _, _, _)
RangesOf(dims, buf, pos, d) ==
  IF d > Len(dims) THEN <<>>
  ELSE << << RdVal(buf, pos, dims[d].coord_size),
             RdVal(buf, pos + dims[d].coord_size, dims[d].coord_size) >> >>
       \o RangesOf(dims, buf, pos + 2 * dims[d].coord_size, d + 1)

\* the non-empty domain read, and the domain expanded to tiles
with_non_empty_domain(s, w, lbl, ned) ==
  [Adv(s, w, lbl) EXCEPT
     !.f.non_empty_domain = ned,
     !.f.domain = expand_to_tiles(s.f.array_schema, ned)]

\* FragmentMetadata::load_non_empty_domain_v1_v2: the size, that many
\* bytes into temp, and the ranges out of temp; a temp shorter than the
\* ranges is read past its end
load_non_empty_domain_v1_v2(s, buf) ==
  IF ~s.ok THEN s
  ELSE IF ~RdOK(buf, s.pos, 8) THEN Fail(s)
  ELSE LET domain_size == RdVal(buf, s.pos, 8)
           dims == Schemas[s.f.array_schema].dimensions
       IN  IF domain_size = 0
           THEN IF s.f.non_empty_domain = <<>>
                THEN Adv(s, 8, "non_empty_domain")
                ELSE with_non_empty_domain(s, 8, "non_empty_domain",
                                           s.f.non_empty_domain)
           ELSE IF ~RdOK(buf, s.pos + 8, domain_size) THEN Fail(s)
           ELSE IF domain_size
                     < SumSeq([d \in 1..Len(dims) |-> 2 * dims[d].coord_size])
           THEN [Adv(s, 8 + domain_size, "non_empty_domain") EXCEPT
                   !.f.non_empty_domain = Undefined,
                   !.f.domain = Undefined]
           ELSE with_non_empty_domain(s, 8 + domain_size, "non_empty_domain",
                                      RangesOf(dims, buf, s.pos + 8, 1))

\* FragmentMetadata::load_non_empty_domain_v3_v4: the size is that of
\* dim_num ranges of the first dimension's type
load_non_empty_domain_v3_v4(s, buf) ==
  IF ~s.ok THEN s
  ELSE IF ~RdOK(buf, s.pos, 1) THEN Fail(s)
  ELSE LET dims == Schemas[s.f.array_schema].dimensions
           domain_size == 2 * Len(dims) * dims[1].coord_size
       IN  IF RdVal(buf, s.pos, 1) # 0
           THEN IF s.f.non_empty_domain = <<>>
                THEN Adv(s, 1, "non_empty_domain")
                ELSE with_non_empty_domain(s, 1, "non_empty_domain",
                                           s.f.non_empty_domain)
           ELSE IF ~RdOK(buf, s.pos + 1, domain_size) THEN Fail(s)
           ELSE with_non_empty_domain(s, 1 + domain_size, "non_empty_domain",
                                      RangesOf(dims, buf, s.pos + 1, 1))

\* FragmentMetadata::load_non_empty_domain_v5_or_higher
load_non_empty_domain_v5_or_higher(s, buf) ==
  IF ~s.ok THEN s
  ELSE IF ~RdOK(buf, s.pos, 1) THEN Fail(s)
  ELSE IF RdVal(buf, s.pos, 1) # 0
  THEN Adv(s, 1, "non_empty_domain")
  ELSE LET sch == s.f.array_schema
           r == read_ndrange(Schemas[sch].dimensions, buf, s.pos + 1, 1)
       IN  IF ~r[1] THEN Fail(s)
           ELSE [Adv(s, 1 + r[3], "non_empty_domain") EXCEPT
                   !.f.non_empty_domain = r[2],
                   !.f.domain = expand_to_tiles(sch, r[2])]

\* FragmentMetadata::load_non_empty_domain
load_non_empty_domain(s, buf) ==
  IF s.f.version <= 2 THEN load_non_empty_domain_v1_v2(s, buf)
  ELSE IF s.f.version = 3 \/ s.f.version = 4
  THEN load_non_empty_domain_v3_v4(s, buf)
  ELSE load_non_empty_domain_v5_or_higher(s, buf)

\* FragmentMetadata::load_sparse_tile_num / load_last_tile_cell_num
load_sparse_tile_num(s, buf) ==
  IF ~s.ok THEN s
  ELSE IF ~RdOK(buf, s.pos, 8) THEN Fail(s)
  ELSE [Adv(s, 8, "sparse_tile_num") EXCEPT
          !.f.sparse_tile_num = RdVal(buf, s.pos, 8)]
load_last_tile_cell_num(s, buf) ==
  IF ~s.ok THEN s
  ELSE IF ~RdOK(buf, s.pos, 8) THEN Fail(s)
  ELSE [Adv(s, 8, "last_tile_cell_num") EXCEPT
          !.f.last_tile_cell_num = RdVal(buf, s.pos, 8)]

\* FragmentMetadata::load_has_timestamps / load_has_delete_meta
load_has_timestamps(s, buf) ==
  IF ~s.ok THEN s
  ELSE IF ~RdOK(buf, s.pos, 1) THEN Fail(s)
  ELSE LET b == RdVal(buf, s.pos, 1) # 0
       IN  [Adv(s, 1, "has_timestamps") EXCEPT
              !.f.has_timestamps = b,
              !.f.idx_map = IF b THEN build_idx_map(s.f.array_schema, TRUE,
                                                    s.f.has_delete_meta)
                            ELSE @]
load_has_delete_meta(s, buf) ==
  IF ~s.ok THEN s
  ELSE IF ~RdOK(buf, s.pos, 1) THEN Fail(s)
  ELSE LET b == RdVal(buf, s.pos, 1) # 0
       IN  [Adv(s, 1, "has_delete_meta") EXCEPT
              !.f.has_delete_meta = b,
              !.f.idx_map = IF b THEN build_idx_map(s.f.array_schema,
                                                    s.f.has_timestamps, TRUE)
                            ELSE @]

\* num sizes into a member of the object (resized before the read)
load_sizes(s, buf, member, num) ==
  IF ~s.ok THEN s
  ELSE IF ~RdOK(buf, s.pos, 8 * num)
  THEN [Fail(s) EXCEPT !.f[member] = ResizeOuter(@, num, 0)]
  ELSE [Adv(s, 8 * num, member) EXCEPT
          !.f[member] = RdU64s(buf, s.pos, num)]

\* FragmentMetadata::load_file_sizes: load_file_sizes_v1_v4 holds a size
\* per attribute and one for the coordinates, load_file_sizes_v5_or_higher
\* one per field
load_file_sizes(s, buf) ==
  load_sizes(s, buf, "file_sizes",
             IF s.f.version < 5 THEN attribute_num(s.f.array_schema) + 1
             ELSE num_dims_and_attrs(s.f))

\* FragmentMetadata::load_file_var_sizes: load_file_var_sizes_v1_v4 holds
\* a size per attribute, load_file_var_sizes_v5_or_higher one per field
load_file_var_sizes(s, buf) ==
  load_sizes(s, buf, "file_var_sizes",
             IF s.f.version < 5 THEN attribute_num(s.f.array_schema)
             ELSE num_dims_and_attrs(s.f))
load_file_validity_sizes(s, buf) ==
  LET num == num_dims_and_attrs(s.f)
  IN  IF ~s.ok \/ s.f.version <= 6 THEN s
      ELSE IF ~RdOK(buf, s.pos, 8 * num)
      THEN [Fail(s) EXCEPT !.f.file_validity_sizes = ResizeOuter(@, num, 0)]
      ELSE [Adv(s, 8 * num, "file_validity_sizes") EXCEPT
              !.f.file_validity_sizes = RdU64s(buf, s.pos, num)]

\* FragmentMetadata::load_generic_tile_offsets: one member of gt_offsets_
load_gt_vector(s, buf, member, lbl) ==
  LET num == num_dims_and_attrs(s.f)
  IN  IF ~s.ok THEN s
      ELSE IF ~RdOK(buf, s.pos, 8 * num)
      THEN [Fail(s) EXCEPT !.f.gt_offsets[member] = ResizeOuter(@, num, 0)]
      ELSE [Adv(s, 8 * num, lbl) EXCEPT
              !.f.gt_offsets[member] = RdU64s(buf, s.pos, num)]
load_gt_scalar(s, buf, member, lbl) ==
  IF ~s.ok THEN s
  ELSE IF ~RdOK(buf, s.pos, 8) THEN Fail(s)
  ELSE [Adv(s, 8, lbl) EXCEPT !.f.gt_offsets[member] = RdVal(buf, s.pos, 8)]

\* FragmentMetadata::load_generic_tile_offsets_v3_v4: an offset per
\* attribute (and one for the coordinates in tile_offsets_)
load_gt_vector_of(s, buf, member, lbl, num) ==
  IF ~s.ok THEN s
  ELSE IF ~RdOK(buf, s.pos, 8 * num)
  THEN [Fail(s) EXCEPT !.f.gt_offsets[member] = ResizeOuter(@, num, 0)]
  ELSE [Adv(s, 8 * num, lbl) EXCEPT
          !.f.gt_offsets[member] = RdU64s(buf, s.pos, num)]
load_generic_tile_offsets_v3_v4(s, buf) ==
  LET s1 == load_gt_scalar(s, buf, "rtree", "rtree_offset")
      s2 == load_gt_vector_of(s1, buf, "tile_offsets", "tile_offsets_offsets",
                              attribute_num(s.f.array_schema) + 1)
      s3 == load_gt_vector_of(s2, buf, "tile_var_offsets",
                              "tile_var_offsets_offsets",
                              attribute_num(s.f.array_schema))
  IN  load_gt_vector_of(s3, buf, "tile_var_sizes", "tile_var_sizes_offsets",
                        attribute_num(s.f.array_schema))

\* FragmentMetadata::load_generic_tile_offsets_v5_v6
load_generic_tile_offsets_v5_v6(s, buf) ==
  LET s1 == load_gt_scalar(s, buf, "rtree", "rtree_offset")
      s2 == load_gt_vector(s1, buf, "tile_offsets", "tile_offsets_offsets")
      s3 == load_gt_vector(s2, buf, "tile_var_offsets",
                           "tile_var_offsets_offsets")
  IN  load_gt_vector(s3, buf, "tile_var_sizes", "tile_var_sizes_offsets")

\* FragmentMetadata::load_generic_tile_offsets_v7_v10
load_generic_tile_offsets_v7_v10(s, buf) ==
  LET s1 == load_gt_scalar(s, buf, "rtree", "rtree_offset")
      s2 == load_gt_vector(s1, buf, "tile_offsets", "tile_offsets_offsets")
      s3 == load_gt_vector(s2, buf, "tile_var_offsets",
                           "tile_var_offsets_offsets")
      s4 == load_gt_vector(s3, buf, "tile_var_sizes", "tile_var_sizes_offsets")
  IN  load_gt_vector(s4, buf, "tile_validity_offsets",
                     "tile_validity_offsets_offsets")

\* FragmentMetadata::load_generic_tile_offsets_v11
load_generic_tile_offsets_v11(s, buf) ==
  LET s5 == load_generic_tile_offsets_v7_v10(s, buf)
      s6 == load_gt_vector(s5, buf, "tile_min_offsets", "tile_min_offsets")
      s7 == load_gt_vector(s6, buf, "tile_max_offsets", "tile_max_offsets")
      s8 == load_gt_vector(s7, buf, "tile_sum_offsets", "tile_sum_offsets")
  IN  load_gt_vector(s8, buf, "tile_null_count_offsets",
                     "tile_null_count_offsets")

\* FragmentMetadata::load_generic_tile_offsets_v12_v15
load_generic_tile_offsets_v12_v15(s, buf) ==
  load_gt_scalar(load_generic_tile_offsets_v11(s, buf), buf,
                 "fragment_min_max_sum_null_count_offset",
                 "fragment_min_max_sum_null_count_offset")

\* FragmentMetadata::load_generic_tile_offsets_v16_or_higher
load_generic_tile_offsets_v16_or_higher(s, buf) ==
  load_gt_scalar(load_generic_tile_offsets_v12_v15(s, buf), buf,
                 "processed_conditions_offsets",
                 "processed_conditions_offsets")

\* FragmentMetadata::load_generic_tile_offsets
load_generic_tile_offsets(s, buf) ==
  IF s.f.version = 3 \/ s.f.version = 4
  THEN load_generic_tile_offsets_v3_v4(s, buf)
  ELSE IF s.f.version >= 5 /\ s.f.version < 7
  THEN load_generic_tile_offsets_v5_v6(s, buf)
  ELSE IF s.f.version >= 7 /\ s.f.version < 11
  THEN load_generic_tile_offsets_v7_v10(s, buf)
  ELSE IF s.f.version = 11 THEN load_generic_tile_offsets_v11(s, buf)
  ELSE IF s.f.version >= 12 /\ s.f.version < 16
  THEN load_generic_tile_offsets_v12_v15(s, buf)
  ELSE load_generic_tile_offsets_v16_or_higher(s, buf)

\* load_footer: the resizes between the file sizes and the generic tile
\* offsets
load_footer_resize(s) ==
  LET num == attribute_num(s.f.array_schema) + 1
             + BoolByte(s.f.has_timestamps) + BoolByte(s.f.has_delete_meta) * 2
             + (IF s.f.version >= 5 THEN dim_num(s.f.array_schema) ELSE 0)
  IN  IF ~s.ok THEN s
      ELSE [s EXCEPT
        !.f.tile_offsets = ResizeOuter(@, num, <<>>),
        !.f.tile_var_offsets = ResizeOuter(@, num, <<>>),
        !.f.tile_var_sizes = ResizeOuter(@, num, <<>>),
        !.f.tile_validity_offsets = ResizeOuter(@, num, <<>>),
        !.f.tile_min_buffer = ResizeOuter(@, num, <<>>),
        !.f.tile_min_var_buffer = ResizeOuter(@, num, <<>>),
        !.f.tile_max_buffer = ResizeOuter(@, num, <<>>),
        !.f.tile_max_var_buffer = ResizeOuter(@, num, <<>>),
        !.f.tile_sums = ResizeOuter(@, num, <<>>),
        !.f.tile_null_counts = ResizeOuter(@, num, <<>>),
        !.f.fragment_mins = ResizeOuter(@, num, <<>>),
        !.f.fragment_maxs = ResizeOuter(@, num, <<>>),
        !.f.fragment_sums = ResizeOuter(@, num, 0),
        !.f.fragment_null_counts = ResizeOuter(@, num, 0),
        !.f.loaded_metadata.tile_offsets = ResizeOuter(@, num, FALSE),
        !.f.loaded_metadata.tile_var_offsets = ResizeOuter(@, num, FALSE),
        !.f.loaded_metadata.tile_var_sizes = ResizeOuter(@, num, FALSE),
        !.f.loaded_metadata.tile_validity_offsets =
           ResizeOuter(@, num, FALSE),
        !.f.loaded_metadata.tile_min = ResizeOuter(@, num, FALSE),
        !.f.loaded_metadata.tile_max = ResizeOuter(@, num, FALSE),
        !.f.loaded_metadata.tile_sum = ResizeOuter(@, num, FALSE),
        !.f.loaded_metadata.tile_null_count = ResizeOuter(@, num, FALSE)]

\* load_footer: the name of the schema (read from version 10 on) and the
\* schema of that name
load_footer_schema(s, buf, array_schemas) ==
  IF ~s.ok THEN s
  ELSE IF s.f.version >= 10
  THEN lookup_schema(load_array_schema_name(s, buf), array_schemas)
  ELSE lookup_schema([s EXCEPT !.f.array_schema_name = array_schema_filename],
                     array_schemas)

\* load_footer: the two flags read from versions 14 and 15 on
load_footer_has_timestamps(s, buf) ==
  IF s.ok /\ s.f.version >= 14 THEN load_has_timestamps(s, buf) ELSE s
load_footer_has_delete_meta(s, buf) ==
  IF s.ok /\ s.f.version >= 15 THEN load_has_delete_meta(s, buf) ELSE s

\* load_footer: the flag, and the size of a footer read from a
\* consolidated buffer
load_footer_done(s) ==
  IF ~s.ok THEN s
  ELSE [s EXCEPT !.f.loaded_metadata.footer = TRUE,
                 !.f.footer_size = IF @ = 0 THEN s.pos ELSE @]

\* FragmentMetadata::load_footer from the Deserializer on: f has
\* footer_offset_, footer_size_ and has_consolidated_footer_ set already
load_footer(f, buf, array_schemas, m) ==
  LET s0 == [f |-> f, pos |-> 0, ok |-> TRUE, fields |-> <<>>, mt |-> m,
             err |-> "none"]
      s1 == load_version(s0, buf)
      s2 == load_footer_schema(s1, buf, array_schemas)
      s3 == load_dense(s2, buf)
      s4 == load_non_empty_domain(s3, buf)
      s5 == load_sparse_tile_num(s4, buf)
      s6 == load_last_tile_cell_num(s5, buf)
      s7 == load_footer_has_timestamps(s6, buf)
      s8 == load_footer_has_delete_meta(s7, buf)
      s9 == load_file_sizes(s8, buf)
      s10 == load_file_var_sizes(s9, buf)
      s11 == load_file_validity_sizes(s10, buf)
      s12 == load_footer_resize(s11)
      s13 == load_generic_tile_offsets(s12, buf)
  IN  load_footer_done(s13)

(***************************************************************************)
(* MemoryTracker: a global budget and one counter per memory type          *)
(***************************************************************************)
MemoryTypes == {"RTREE", "TILE_OFFSETS", "FOOTER", "MIN_MAX_SUM_NULL_COUNT"}
MemoryTracker(budget) ==
  [budget |-> budget, available |-> budget,
   counters |-> [t \in MemoryTypes |-> 0]]
\* whether take_memory(n, type) grants, and the tracker after it
can_take_memory(m, n) == m.available >= n
take_memory(m, n, type) ==
  IF can_take_memory(m, n)
  THEN [m EXCEPT !.available = @ - n, !.counters[type] = @ + n]
  ELSE m
release_memory(m, n, type) ==
  [m EXCEPT !.available = @ + n, !.counters[type] = @ - n]

(***************************************************************************)
(* Reads of the metadata file                                              *)
(***************************************************************************)
\* VFS::file_size
file_size(fl) == FileOffset(fl, Len(fl) + 1)

BlobAt(fl, offset, type) ==
  {k \in 1..Len(fl) : FileOffset(fl, k) = offset /\ fl[k].type = type}

\* GenericTileIO::read_generic: the payload of the generic tile at offset;
\* an offset where no generic tile starts is a corrupt header
read_generic(fl, offset) ==
  IF BlobAt(fl, offset, "generic") = {} THEN [ok |-> FALSE, data |-> <<>>]
  ELSE [ok |-> TRUE,
        data |-> Bytes(fl[CHOOSE k \in BlobAt(fl, offset, "generic") :
                            TRUE].data)]

\* VFS::read of nbytes at offset.  The footer and its size are the only
\* raw regions of the file, and every read the loaders issue on a stored
\* file covers exactly one of them.
vfs_read(fl, offset, nbytes) ==
  LET ks == {k \in BlobAt(fl, offset, "raw") : fl[k].nbytes = nbytes}
  IN  IF ks = {} THEN [ok |-> FALSE, data |-> <<>>]
      ELSE [ok |-> TRUE, data |-> Bytes(fl[CHOOSE k \in ks : TRUE].data)]

\* FragmentMetadata::footer_size_v3_v4
footer_size_v3_v4(f) ==
  LET dims == Schemas[f.array_schema].dimensions
      an == attribute_num(f.array_schema)
      domain_size == 2 * Len(dims) * dims[1].coord_size
  IN  4 + 1 + 1 + domain_size + 8 + 8 + (an + 1) * 8 + an * 8
      + 8 + (an + 1) * 8 + an * 8 + an * 8

\* FragmentMetadata::footer_size_v5_v6
footer_size_v5_v6(f) ==
  LET dims == Schemas[f.array_schema].dimensions
      num == num_dims_and_attrs(f)
      range_size(d) ==
        IF dims[d].var_size
        THEN Len(f.non_empty_domain[d][1]) + Len(f.non_empty_domain[d][2])
             + 2 * 8
        ELSE 2 * dims[d].coord_size
      domain_size ==
        IF f.non_empty_domain = <<>>
        THEN SumSeq([d \in 1..Len(dims) |-> 2 * dims[d].coord_size])
        ELSE SumSeq([d \in 1..Len(dims) |-> range_size(d)])
  IN  4 + 1 + 1 + domain_size + 8 + 8 + num * 8 + num * 8
      + 8 + num * 8 + num * 8 + num * 8

\* FragmentMetadata::footer_size_v7_v9
footer_size_v7_v9(f) ==
  LET dims == Schemas[f.array_schema].dimensions
      num == num_dims_and_attrs(f)
      range_size(d) ==
        IF dims[d].var_size
        THEN Len(f.non_empty_domain[d][1]) + Len(f.non_empty_domain[d][2])
             + 2 * 8
        ELSE 2 * dims[d].coord_size
      domain_size ==
        IF f.non_empty_domain = <<>>
        THEN SumSeq([d \in 1..Len(dims) |-> 2 * dims[d].coord_size])
        ELSE SumSeq([d \in 1..Len(dims) |-> range_size(d)])
  IN  4 + 1 + 1 + domain_size + 8 + 8 + num * 8 + num * 8 + num * 8
      + 8 + num * 8 + num * 8 + num * 8 + num * 8

\* the size always taken from the last 8 bytes of the file
get_footer_offset_and_size_from_trailer(f, fl) ==
  LET r == vfs_read(fl, f.meta_file_size - 8, 8)
      size == RdVal(r.data, 0, 8)
  IN  IF ~r.ok THEN [ok |-> FALSE, io |-> TRUE, size |-> f.footer_size,
                     offset |-> f.footer_offset]
      ELSE [ok |-> TRUE, io |-> TRUE, size |-> size,
            offset |-> f.meta_file_size - size - 8]

\* FragmentMetadata::get_footer_offset_and_size; io tells whether the size
\* was read from the file
get_footer_offset_and_size(f, fl) ==
  IF all_dims_fixed(f.array_schema) /\ f.fragment_uri_version < 5
  THEN [ok |-> TRUE, io |-> FALSE, size |-> footer_size_v3_v4(f),
        offset |-> f.meta_file_size - footer_size_v3_v4(f)]
  ELSE IF all_dims_fixed(f.array_schema) /\ f.fragment_uri_version < 7
  THEN [ok |-> TRUE, io |-> FALSE, size |-> footer_size_v5_v6(f),
        offset |-> f.meta_file_size - footer_size_v5_v6(f)]
  ELSE IF all_dims_fixed(f.array_schema) /\ f.fragment_uri_version < 10
  THEN [ok |-> TRUE, io |-> FALSE, size |-> footer_size_v7_v9(f),
        offset |-> f.meta_file_size - footer_size_v7_v9(f)]
  ELSE LET r == vfs_read(fl, f.meta_file_size - 8, 8)
           size == RdVal(r.data, 0, 8)
       IN  IF ~r.ok THEN [ok |-> FALSE, io |-> TRUE, size |-> f.footer_size,
                          offset |-> f.footer_offset]
           ELSE [ok |-> TRUE, io |-> TRUE, size |-> size,
                 offset |-> f.meta_file_size - size - 8]

(***************************************************************************)
(* Section deserializers                                                   *)
(***************************************************************************)
\* a count and that many uint64 values into member[idx], charged to type
load_u64_vector(s, buf, member, idx, type, lbl) ==
  IF ~RdOK(buf, s.pos, 8) THEN Fail(s)
  ELSE LET num == RdVal(buf, s.pos, 8)
           size == num * 8
           s1 == [Adv(s, 8, lbl) EXCEPT !.mt = take_memory(@, size, type)]
       IN  IF num = 0 THEN Adv(s, 8, lbl)
           ELSE IF ~can_take_memory(s.mt, size) THEN FailWith(s, "budget")
           ELSE IF ~RdOK(buf, s1.pos, size)
           THEN [Fail(s1) EXCEPT !.f[member][idx] = Resize(@, num, 0)]
           ELSE [s1 EXCEPT !.pos = @ + size,
                           !.f[member][idx] =
                              FnSeq(RdU64s(buf, s1.pos, num), num)]

\* FragmentMetadata::load_tile_offsets(idx, deserializer) and siblings
load_tile_offsets_from(s, buf, idx) ==
  load_u64_vector(s, buf, "tile_offsets", idx, "TILE_OFFSETS", "tile_offsets")
load_tile_var_offsets_from(s, buf, idx) ==
  load_u64_vector(s, buf, "tile_var_offsets", idx, "TILE_OFFSETS",
                  "tile_var_offsets")
load_tile_var_sizes_from(s, buf, idx) ==
  load_u64_vector(s, buf, "tile_var_sizes", idx, "TILE_OFFSETS",
                  "tile_var_sizes")
load_tile_validity_offsets_from(s, buf, idx) ==
  load_u64_vector(s, buf, "tile_validity_offsets", idx, "TILE_OFFSETS",
                  "tile_validity_offsets")
load_tile_sum_values_from(s, buf, idx) ==
  load_u64_vector(s, buf, "tile_sums", idx, "MIN_MAX_SUM_NULL_COUNT",
                  "tile_sum")
load_tile_null_count_values_from(s, buf, idx) ==
  load_u64_vector(s, buf, "tile_null_counts", idx, "MIN_MAX_SUM_NULL_COUNT",
                  "tile_null_count")

\* the two sizes, the fixed buffer and the var buffer of tile mins / maxs
load_min_max_buffers(s, buf, member, var_member, idx, lbl) ==
  IF ~RdOK(buf, s.pos, 16) THEN Fail(s)
  ELSE LET buffer_size == RdVal(buf, s.pos, 8)
           var_buffer_size == RdVal(buf, s.pos + 8, 8)
           size == buffer_size + var_buffer_size
           w == min_max_cell_size(s.f, idx)
           n == buffer_size \div w
           s1 == [Adv(s, 16, lbl) EXCEPT
                    !.mt = take_memory(@, size, "MIN_MAX_SUM_NULL_COUNT")]
       IN  IF buffer_size = 0 THEN Adv(s, 16, lbl)
           ELSE IF ~can_take_memory(s.mt, size) THEN FailWith(s, "budget")
           ELSE IF ~RdOK(buf, s1.pos, buffer_size)
           THEN [Fail(s1) EXCEPT !.f[member][idx] = Resize(@, n, 0)]
           ELSE IF ~RdOK(buf, s1.pos + buffer_size, var_buffer_size)
           THEN [Fail(s1) EXCEPT
                   !.f[member][idx] =
                      [k \in 1..n |-> RdVal(buf, s1.pos + (k - 1) * w, w)],
                   !.f[var_member][idx] = Resize(@, var_buffer_size, 0)]
           ELSE [s1 EXCEPT
                   !.pos = @ + size,
                   !.f[member][idx] =
                      [k \in 1..n |-> RdVal(buf, s1.pos + (k - 1) * w, w)],
                   !.f[var_member][idx] =
                      IF var_buffer_size = 0 THEN @
                      ELSE RdBytes(buf, s1.pos + buffer_size,
                                   var_buffer_size)]

\* FragmentMetadata::load_tile_min_values / load_tile_max_values
load_tile_min_values_from(s, buf, idx) ==
  load_min_max_buffers(s, buf, "tile_min_buffer", "tile_min_var_buffer", idx,
                       "tile_min")
load_tile_max_values_from(s, buf, idx) ==
  load_min_max_buffers(s, buf, "tile_max_buffer", "tile_max_var_buffer", idx,
                       "tile_max")

\* FragmentMetadata::load_fragment_min_max_sum_null_count(deserializer):
\* fields i .. num-1
RECURSIVE load_fragment_min_max_sum_null_count_from(_, _, _)
load_fragment_min_max_sum_null_count_from(s, buf, i) ==
  LET lbl == "fragment_min_max_sum_null_count"
      min_size == RdVal(buf, s.pos, 8)
      p1 == s.pos + 8
      s1 == [s EXCEPT !.f.fragment_mins[i] =
                         IF RdOK(buf, p1, min_size)
                         THEN RdBytes(buf, p1, min_size)
                         ELSE Resize(@, min_size, 0)]
      p2 == p1 + min_size
      max_size == RdVal(buf, p2, 8)
      p3 == p2 + 8
      s2 == [s1 EXCEPT !.f.fragment_maxs[i] =
                          IF RdOK(buf, p3, max_size)
                          THEN RdBytes(buf, p3, max_size)
                          ELSE Resize(@, max_size, 0)]
      p4 == p3 + max_size
      s3 == [s2 EXCEPT !.f.fragment_sums[i] = RdVal(buf, p4, 8)]
      s4 == [s3 EXCEPT !.f.fragment_null_counts[i] = RdVal(buf, p4 + 8, 8),
                       !.pos = p4 + 16, !.fields = Append(@, lbl)]
  IN  IF ~s.ok \/ i >= num_dims_and_attrs(s.f) THEN s
      ELSE IF ~RdOK(buf, s.pos, 8) THEN Fail(s)
      ELSE IF ~RdOK(buf, p1, min_size) \/ ~RdOK(buf, p2, 8) THEN Fail(s1)
      ELSE IF ~RdOK(buf, p3, max_size) \/ ~RdOK(buf, p4, 8) THEN Fail(s2)
      ELSE IF ~RdOK(buf, p4 + 8, 8) THEN Fail(s3)
      ELSE load_fragment_min_max_sum_null_count_from(s4, buf, i + 1)

\* FragmentMetadata::load_processed_conditions(deserializer): the loop
\* over the conditions still to read
RECURSIVE read_processed_conditions(_, _, _)
read_processed_conditions(s, buf, left) ==
  LET size == RdVal(buf, s.pos, 8)
  IN  IF left = 0 THEN s
      ELSE IF ~RdOK(buf, s.pos, 8) \/ ~RdOK(buf, s.pos + 8, size)
      THEN Fail(s)
      ELSE read_processed_conditions(
             [s EXCEPT !.pos = @ + 8 + size,
                       !.f.processed_conditions =
                          Append(@, RdBytes(buf, s.pos + 8, size))],
             buf, left - 1)
load_processed_conditions_from(s, buf) ==
  IF ~RdOK(buf, s.pos, 8) THEN Fail(s)
  ELSE read_processed_conditions(Adv(s, 8, "processed_conditions"), buf,
                                 RdVal(buf, s.pos, 8))

\* RTree::deserialize: the leaf count and the leaves; the internal levels
\* are rebuilt and the size of the buffer is remembered
RECURSIVE rtree_read_leaves(_, _, _, _)
rtree_read_leaves(dims, buf, pos, left) ==
  IF left = 0 THEN <<TRUE, <<>>, 0>>
  ELSE LET r == read_ndrange(dims, buf, pos, 1)
       IN  IF ~r[1] THEN r
           ELSE LET rest == rtree_read_leaves(dims, buf, pos + r[3], left - 1)
                IN  IF ~rest[1] THEN rest
                    ELSE <<TRUE, <<r[2]>> \o rest[2], r[3] + rest[3]>>
rtree_deserialize(s, buf) ==
  IF ~RdOK(buf, s.pos, 8) THEN Fail(s)
  ELSE LET r == rtree_read_leaves(Schemas[s.f.array_schema].dimensions, buf,
                                  s.pos + 8, RdVal(buf, s.pos, 8))
       IN  IF ~r[1] THEN Fail(s)
           ELSE [Adv(s, 8 + r[3], "rtree") EXCEPT
                   !.f.rtree = [leaves |-> r[2], built |-> TRUE,
                                buffer_size |-> Len(buf)]]

\* RTree::free_memory: the levels go, the bytes are reported
rtree_free_memory(rt) ==
  [rt EXCEPT !.leaves = <<>>, !.built = FALSE, !.buffer_size = 0]

\* load_rtree after the read: the charge, then the deserialization
load_rtree_from(s, buf) ==
  IF ~can_take_memory(s.mt, Len(buf)) THEN FailWith(s, "budget")
  ELSE rtree_deserialize([s EXCEPT !.mt = take_memory(@, Len(buf), "RTREE")],
                         buf)

(***************************************************************************)
(* The lazy loaders.  Every loader is: version gate, (flag check), lock,   *)
(* (flag check), read of the generic tile, deserialization, flag.          *)
(***************************************************************************)
tile_metadata_min_version == 11

Sections ==
  PerFieldKinds \cup {"rtree", "fragment_min_max_sum_null_count",
                      "processed_conditions"}

\* the version gate: the loader returns at once
LoaderSkipsBefore15(kind, version) ==
  CASE kind \in {"rtree", "tile_offsets", "tile_var_offsets",
                 "tile_var_sizes"} -> version <= 2
    [] kind = "tile_validity_offsets" -> version <= 6
    [] kind \in {"tile_min", "tile_max", "tile_sum", "tile_null_count"} ->
         version < tile_metadata_min_version
    [] kind = "fragment_min_max_sum_null_count" -> version <= 11
    [] kind = "processed_conditions" -> version <= 14
LoaderSkips(kind, version) ==
  CASE kind \in {"rtree", "tile_offsets", "tile_var_offsets",
                 "tile_var_sizes"} -> version <= 2
    [] kind = "tile_validity_offsets" -> version <= 6
    [] kind \in {"tile_min", "tile_max", "tile_sum", "tile_null_count"} ->
         version < tile_metadata_min_version
    [] kind = "fragment_min_max_sum_null_count" -> version <= 11
    [] kind = "processed_conditions" -> version <= 15

\* the flag is tested before the lock is taken / after it is taken
ChecksBeforeLock(kind) ==
  kind \in {"tile_offsets", "tile_var_offsets",
            "fragment_min_max_sum_null_count", "processed_conditions"}
ChecksUnderLock(kind) ==
  kind \notin {"fragment_min_max_sum_null_count", "processed_conditions"}

\* the mutex a loader holds
LoaderMutex(kind, idx) ==
  IF kind = "tile_offsets" THEN <<"tile_offsets_mtx", idx>>
  ELSE IF kind = "tile_var_offsets" THEN <<"tile_var_offsets_mtx", idx>>
  ELSE <<"mtx", 0>>

\* loaded_metadata_.<section>
Loaded(f, kind, idx) ==
  IF kind \in PerFieldKinds THEN f.loaded_metadata[kind][idx]
  ELSE f.loaded_metadata[kind]
SetLoaded(f, kind, idx, b) ==
  IF kind \in PerFieldKinds
  THEN [f EXCEPT !.loaded_metadata[kind][idx] = b]
  ELSE [f EXCEPT !.loaded_metadata[kind] = b]

\* the deserializer of a section, then its flag
LoadSectionFrom(f, m, kind, idx, buf, Deserialize(_, _, _)) ==
  Bind(Deserialize([f |-> f, pos |-> 0, ok |-> TRUE, fields |-> <<>>,
                    mt |-> m, err |-> "none"], buf, idx), LAMBDA r :
    IF r.ok THEN [r EXCEPT !.f = SetLoaded(@, kind, idx, TRUE)] ELSE r)

\* FragmentMetadata::free_rtree
free_rtree(f, m) ==
  [f |-> [f EXCEPT !.rtree = rtree_free_memory(@),
                   !.loaded_metadata.rtree = FALSE],
   mt |-> release_memory(m, f.rtree.buffer_size, "RTREE")]

\* FragmentMetadata::free_tile_offsets: the five loops
free_tile_offsets_unreleased(f, m) ==
  LET cleared(v) == [i \in DOMAIN v |-> <<>>]
  IN  [f |-> [f EXCEPT !.tile_offsets = cleared(@),
                       !.tile_var_offsets = cleared(@),
                       !.tile_validity_offsets = cleared(@),
                       !.tile_var_sizes = cleared(@),
                       !.loaded_metadata.tile_offsets =
                          [i \in DOMAIN @ |-> FALSE],
                       !.loaded_metadata.tile_var_offsets =
                          [i \in DOMAIN @ |-> FALSE],
                       !.loaded_metadata.tile_validity_offsets =
                          [i \in DOMAIN @ |-> FALSE],
                       !.loaded_metadata.tile_var_sizes =
                          [i \in DOMAIN @ |-> FALSE]],
       mt |-> m]
free_tile_offsets(f, m) ==
  LET cleared(v) == [i \in DOMAIN v |-> <<>>]
      bytes(v) == SumSeq([k \in 1..Cardinality(DOMAIN v) |->
                            Len(v[k - 1]) * 8])
  IN  [f |-> [f EXCEPT
                !.tile_offsets = cleared(@),
                !.tile_var_offsets = cleared(@),
                !.tile_validity_offsets = cleared(@),
                !.tile_var_sizes = cleared(@),
                !.loaded_metadata.tile_offsets =
                   [i \in DOMAIN @ |->
                      IF i \in DOMAIN f.tile_offsets THEN FALSE ELSE @[i]],
                !.loaded_metadata.tile_var_offsets =
                   [i \in DOMAIN @ |->
                      IF i \in DOMAIN f.tile_var_offsets THEN FALSE ELSE @[i]],
                !.loaded_metadata.tile_validity_offsets =
                   [i \in DOMAIN @ |->
                      IF i \in DOMAIN f.tile_validity_offsets THEN FALSE
                      ELSE @[i]],
                !.loaded_metadata.tile_var_sizes =
                   [i \in DOMAIN @ |->
                      IF i \in DOMAIN f.tile_var_sizes THEN FALSE ELSE @[i]]],
       mt |-> release_memory(m,
                bytes(f.tile_offsets) + bytes(f.tile_var_offsets)
                + bytes(f.tile_validity_offsets) + bytes(f.tile_var_sizes),
                "TILE_OFFSETS")]

(***************************************************************************)
(* Accessors.  A call either raises or returns a value.                    *)
(***************************************************************************)
Raise == [raised |-> TRUE, val |-> "error"]
Abort == [raised |-> TRUE, val |-> "abort"]
Ret(v) == [raised |-> FALSE, val |-> v]

\* a cell_num that takes no tile for the last one
cell_num_of_a_full_tile(f, tile_pos) ==
  IF f.dense THEN cell_num_per_tile(f.array_schema)
  ELSE Schemas[f.array_schema].capacity

\* FragmentMetadata::cell_num(tile_pos)
cell_num(f, tile_pos) ==
  IF f.dense THEN cell_num_per_tile(f.array_schema)
  ELSE IF tile_pos # tile_num(f) - 1 THEN Schemas[f.array_schema].capacity
  ELSE f.last_tile_cell_num

\* FragmentMetadata::file_offset / file_var_offset / file_validity_offset
file_offset(f, name, tid) ==
  LET idx == f.idx_map[name]
  IN  IF ~f.loaded_metadata.tile_offsets[idx] THEN Raise
      ELSE Ret(f.tile_offsets[idx][tid + 1])
file_var_offset(f, name, tid) ==
  LET idx == f.idx_map[name]
  IN  IF ~f.loaded_metadata.tile_var_offsets[idx] THEN Raise
      ELSE Ret(f.tile_var_offsets[idx][tid + 1])
file_validity_offset(f, name, tid) ==
  LET idx == f.idx_map[name]
  IN  IF ~f.loaded_metadata.tile_validity_offsets[idx] THEN Raise
      ELSE Ret(f.tile_validity_offsets[idx][tid + 1])

\* FragmentMetadata::persisted_tile_size
persisted_tile_size_swapped(f, name, tid) ==
  LET idx == f.idx_map[name]
  IN  IF ~f.loaded_metadata.tile_offsets[idx] THEN Raise
      ELSE Ret(IF tid = tile_num(f) - 1
               THEN f.tile_offsets[idx][tid + 1]
               ELSE f.tile_offsets[idx][tid + 2]
                    - f.tile_offsets[idx][tid + 1])
persisted_tile_size(f, name, tid) ==
  LET idx == f.idx_map[name]
  IN  IF ~f.loaded_metadata.tile_offsets[idx] THEN Raise
      ELSE Ret(IF tid # tile_num(f) - 1
               THEN f.tile_offsets[idx][tid + 2]
                    - f.tile_offsets[idx][tid + 1]
               ELSE f.file_sizes[idx] - f.tile_offsets[idx][tid + 1])

\* FragmentMetadata::persisted_tile_var_size
persisted_tile_var_size(f, name, tid) ==
  LET idx == f.idx_map[name]
  IN  IF ~f.loaded_metadata.tile_var_offsets[idx] THEN Raise
      ELSE Ret(IF tid # tile_num(f) - 1
               THEN f.tile_var_offsets[idx][tid + 2]
                    - f.tile_var_offsets[idx][tid + 1]
               ELSE f.file_var_sizes[idx]
                    - f.tile_var_offsets[idx][tid + 1])

\* FragmentMetadata::persisted_tile_validity_size
persisted_tile_validity_size(f, name, tid) ==
  LET idx == f.idx_map[name]
  IN  IF ~f.loaded_metadata.tile_validity_offsets[idx] THEN Raise
      ELSE Ret(IF tid # tile_num(f) - 1
               THEN f.tile_validity_offsets[idx][tid + 2]
                    - f.tile_validity_offsets[idx][tid + 1]
               ELSE f.file_validity_sizes[idx]
                    - f.tile_validity_offsets[idx][tid + 1])

\* FragmentMetadata::tile_var_size
tile_var_size(f, name, tid) ==
  LET idx == f.idx_map[name]
  IN  IF ~f.loaded_metadata.tile_var_sizes[idx] THEN Raise
      ELSE Ret(f.tile_var_sizes[idx][tid + 1])

\* TileMetadataGenerator::has_min_max_metadata / has_sum_metadata
has_min_max_metadata(f, name) == FieldDesc(f.array_schema, name).has_min_max
has_sum_metadata(f, name, var_size) ==
  FieldDesc(f.array_schema, name).has_sum /\ ~var_size

\* the view into a var-sized min / max buffer
var_view(f, offsets, var_buffer, tid) ==
  LET start == offsets[tid + 1]
      size == IF tid = tile_num(f) - 1 THEN Len(var_buffer) - start
              ELSE offsets[tid + 2] - start
  IN  IF size = 0 THEN <<>> ELSE SubSeq(var_buffer, start + 1, start + size)

\* FragmentMetadata::get_tile_min_as<T> and <std::string_view>
get_tile_min_as(f, name, tid) ==
  LET idx == f.idx_map[name]
  IN  IF FieldDesc(f.array_schema, name).var_size THEN Raise
      ELSE IF ~f.loaded_metadata.tile_min[idx] THEN Raise
      ELSE IF ~has_min_max_metadata(f, name) THEN Raise
      ELSE Ret(f.tile_min_buffer[idx][tid + 1])
get_tile_min_as_string_view(f, name, tid) ==
  LET idx == f.idx_map[name]
  IN  IF ~FieldDesc(f.array_schema, name).var_size THEN Raise
      ELSE IF ~f.loaded_metadata.tile_min[idx] THEN Raise
      ELSE IF ~has_min_max_metadata(f, name) THEN Raise
      ELSE Ret(var_view(f, f.tile_min_buffer[idx], f.tile_min_var_buffer[idx],
                        tid))

\* FragmentMetadata::get_tile_max_as<T> and <std::string_view>
get_tile_max_as(f, name, tid) ==
  LET idx == f.idx_map[name]
  IN  IF FieldDesc(f.array_schema, name).var_size THEN Raise
      ELSE IF ~f.loaded_metadata.tile_max[idx] THEN Raise
      ELSE IF ~has_min_max_metadata(f, name) THEN Raise
      ELSE Ret(f.tile_max_buffer[idx][tid + 1])
get_tile_max_as_string_view(f, name, tid) ==
  LET idx == f.idx_map[name]
  IN  IF ~FieldDesc(f.array_schema, name).var_size THEN Raise
      ELSE IF ~f.loaded_metadata.tile_max[idx] THEN Raise
      ELSE IF ~has_min_max_metadata(f, name) THEN Raise
      ELSE Ret(var_view(f, f.tile_max_buffer[idx], f.tile_max_var_buffer[idx],
                        tid))

\* FragmentMetadata::get_tile_sum / get_tile_null_count
get_tile_sum(f, name, tid) ==
  LET idx == f.idx_map[name]
  IN  IF ~f.loaded_metadata.tile_sum[idx] THEN Raise
      ELSE IF ~has_sum_metadata(f, name,
                                FieldDesc(f.array_schema, name).var_size)
      THEN Raise
      ELSE Ret(f.tile_sums[idx][tid + 1])
get_tile_null_count(f, name, tid) ==
  LET idx == f.idx_map[name]
  IN  IF ~f.loaded_metadata.tile_null_count[idx] THEN Raise
      ELSE IF ~FieldDesc(f.array_schema, name).nullable THEN Raise
      ELSE Ret(f.tile_null_counts[idx][tid + 1])

\* FragmentMetadata::get_min / get_max / get_sum / get_null_count
get_min(f, name) ==
  IF ~f.loaded_metadata.fragment_min_max_sum_null_count THEN Raise
  ELSE IF ~has_min_max_metadata(f, name) THEN Raise
  ELSE Ret(f.fragment_mins[f.idx_map[name]])
get_max(f, name) ==
  IF ~f.loaded_metadata.fragment_min_max_sum_null_count THEN Raise
  ELSE IF ~has_min_max_metadata(f, name) THEN Raise
  ELSE Ret(f.fragment_maxs[f.idx_map[name]])
get_sum(f, name) ==
  IF ~f.loaded_metadata.fragment_min_max_sum_null_count THEN Raise
  ELSE IF ~has_sum_metadata(f, name,
                            FieldDesc(f.array_schema, name).var_size)
  THEN Raise
  ELSE Ret(f.fragment_sums[f.idx_map[name]])
get_null_count(f, name) ==
  IF ~f.loaded_metadata.fragment_min_max_sum_null_count THEN Raise
  ELSE IF ~FieldDesc(f.array_schema, name).nullable THEN Raise
  ELSE Ret(f.fragment_null_counts[f.idx_map[name]])

\* FragmentMetadata::get_processed_conditions
get_processed_conditions(f) ==
  IF ~f.loaded_metadata.processed_conditions THEN Raise
  ELSE Ret(f.processed_conditions)

\* RTree::leaf / leaves; a leaf index beyond the leaves is asserted only:
\* the assertion aborts, and a build with NDEBUG reads past the leaves and
\* returns whatever is there
rtree_leaf(rt, i, ndebug) ==
  IF i < Len(rt.leaves) THEN Ret(rt.leaves[i + 1])
  ELSE IF ndebug THEN Ret(Undefined) ELSE Abort
rtree_leaves(rt) == rt.leaves

\* FragmentMetadata::mbr / mbrs
mbr(f, tid, ndebug) == rtree_leaf(f.rtree, tid, ndebug)
mbrs(f) == Ret(rtree_leaves(f.rtree))

\* whether two ranges of a dimension intersect
RangeOverlap(dim, r1, r2) ==
  IF dim.var_size THEN LexLeq(r1[1], r2[2]) /\ LexLeq(r2[1], r1[2])
  ELSE r1[1] <= r2[2] /\ r2[1] <= r1[2]

\* RTree::get_tile_overlap: the leaves intersecting the range on every
\* dimension; RTree::compute_tile_bitmap: one flag per leaf for dimension d
rtree_get_tile_overlap(sch, rt, range) ==
  {t \in 0..(Len(rt.leaves) - 1) :
     \A d \in 1..dim_num(sch) :
       RangeOverlap(Schemas[sch].dimensions[d], rt.leaves[t + 1][d],
                    range[d])}
rtree_compute_tile_bitmap(sch, rt, range, d) ==
  [t \in 1..Len(rt.leaves) |->
     BoolByte(RangeOverlap(Schemas[sch].dimensions[d], rt.leaves[t][d],
                           range))]

\* FragmentMetadata::get_tile_overlap / compute_tile_bitmap: the loaded
\* flag is only asserted, so a build with NDEBUG goes on without it
get_tile_overlap(f, range, ndebug) ==
  IF ~ndebug /\ ~(f.version <= 2 \/ f.loaded_metadata.rtree) THEN Abort
  ELSE Ret(rtree_get_tile_overlap(f.array_schema, f.rtree, range))
compute_tile_bitmap(f, range, d, ndebug) ==
  IF ~ndebug /\ ~(f.version <= 2 \/ f.loaded_metadata.rtree) THEN Abort
  ELSE Ret(rtree_compute_tile_bitmap(f.array_schema, f.rtree, range, d))

\* FragmentMetadata::get_tile_metadata
get_tile_metadata(f, name, tid, ndebug) ==
  LET desc == FieldDesc(f.array_schema, name)
      dim == is_dim(f.array_schema, name)
      dim_idx == CHOOSE d \in 1..dim_num(f.array_schema) :
                   Schemas[f.array_schema].dimensions[d].name = name
      count == cell_num(f, tid)
      nulls == IF desc.nullable THEN get_tile_null_count(f, name, tid)
               ELSE Ret(0)
      leaf == IF dim THEN rtree_leaf(f.rtree, tid, ndebug) ELSE Ret(<<>>)
      min == IF dim THEN Ret(leaf.val[dim_idx][1])
             ELSE IF desc.var_size
             THEN get_tile_min_as_string_view(f, name, tid)
             ELSE get_tile_min_as(f, name, tid)
      max == IF dim THEN Ret(leaf.val[dim_idx][2])
             ELSE IF desc.var_size
             THEN get_tile_max_as_string_view(f, name, tid)
             ELSE get_tile_max_as(f, name, tid)
      sum == IF ~desc.var_size /\ has_sum_metadata(f, name, FALSE)
             THEN get_tile_sum(f, name, tid) ELSE Ret("null")
  IN  IF nulls.raised THEN Raise
      ELSE IF leaf.raised THEN leaf
      ELSE IF min.raised \/ max.raised \/ sum.raised THEN Raise
      ELSE Ret([count |-> count, null_count |-> nulls.val, min |-> min.val,
                max |-> max.val, sum |-> sum.val])

(***************************************************************************)
(* State                                                                   *)
(***************************************************************************)
VARIABLES
  fm,     \* the FragmentMetadata object
  pc,     \* position of the driving program (writer, store, load)
  hist,   \* what the driving program passed in and got back
  file,   \* the fragment metadata file on storage
  mt,     \* the MemoryTracker
  thr,    \* per-thread position and locals of the reader threads
  mtx     \* holder of every mutex of the object

vars == <<fm, pc, hist, file, mt, thr, mtx>>

(***************************************************************************)
(* The writer: init, set_num_tiles, then the per-tile setters, tile by     *)
(* tile and field by field.  The coordinates pseudo-field and, in a dense  *)
(* fragment, the dimensions are indexed but never written.                 *)
(***************************************************************************)
\* the per-tile setter calls a writer makes for one tile, in order
FieldStreams(sch, n) ==
  << <<n, "off">> >>
  \o (IF FieldDesc(sch, n).var_size
      THEN << <<n, "var_off">>, <<n, "var_size">> >> ELSE <<>>)
  \o (IF FieldDesc(sch, n).nullable THEN << <<n, "val">> >> ELSE <<>>)

Streams(sch, dense, has_ts, has_dm) ==
  Concat([k \in 1..attribute_num(sch) |->
            FieldStreams(sch, Schemas[sch].attributes[k].name)])
  \o (IF dense THEN <<>>
      ELSE Concat([k \in 1..dim_num(sch) |->
                     FieldStreams(sch, Schemas[sch].dimensions[k].name)]))
  \o (IF has_ts THEN FieldStreams(sch, timestamps) ELSE <<>>)
  \o (IF has_dm THEN FieldStreams(sch, delete_timestamps)
                     \o FieldStreams(sch, delete_condition_index)
      ELSE <<>>)

StreamsOf(f) ==
  Streams(f.array_schema, f.dense, f.has_timestamps, f.has_delete_meta)

AllStreams ==
  UNION {{Streams(s, d, TRUE, TRUE)[k] :
            k \in 1..Len(Streams(s, d, TRUE, TRUE))} :
           s \in DOMAIN Schemas, d \in BOOLEAN}

NoSteps == [s \in AllStreams |-> <<>>]

\* non-empty domains handed to init() by a dense writer
DenseDomains(sch) ==
  {<< <<a, b>> >> : a, b \in
      Schemas[sch].dimensions[1].lo..Schemas[sch].dimensions[1].hi}

WInitState ==
  /\ pc = [at |-> "new"]
  /\ hist = [steps |-> NoSteps]
  /\ file = <<>>
  /\ mt = [available |-> 0]
  /\ thr = <<>>
  /\ mtx = <<>>

InitWriter ==
  /\ \E dense \in BOOLEAN :
       fm = FragmentMetadata("sf", write_version, dense, FALSE, FALSE)
  /\ WInitState

WIdle == UNCHANGED <<file, mt, thr, mtx>>

\* writer: init(non_empty_domain)
WInit ==
  /\ pc.at = "new"
  /\ \E nd \in DenseDomains(fm.array_schema) :
       /\ nd[1][1] <= nd[1][2]
       /\ fm.dense \/ nd = << <<Schemas[fm.array_schema].dimensions[1].lo,
                                Schemas[fm.array_schema].dimensions[1].lo>> >>
       /\ fm' = init(fm, nd)
       /\ tile_num(fm') <= MaxTiles
  /\ pc' = [at |-> "alloc"]
  /\ UNCHANGED hist
  /\ WIdle

\* writer: set_num_tiles(n); n never shrinks (asserted), a dense writer
\* allocates the tiles of its domain
WSetNumTiles ==
  /\ pc.at \in {"alloc", "grow"}
  /\ \E n \in 1..MaxTiles :
       /\ n >= Len(fm.tile_offsets[0])
       /\ pc.at = "grow" => n > Len(fm.tile_offsets[0])
       /\ fm.dense => n = tile_num(fm)
       /\ fm' = set_num_tiles(fm, n)
  /\ pc' = [at |-> "tile",
            tid |-> IF pc.at = "grow" THEN pc.tid ELSE 0, k |-> 1]
  /\ UNCHANGED hist
  /\ WIdle

\* cursor after one setter call
WAdvance ==
  LET n == Len(StreamsOf(fm))
  IN  IF pc.k < n THEN [pc EXCEPT !.k = @ + 1]
      ELSE IF pc.tid + 1 < Len(fm.tile_offsets[0])
      THEN [pc EXCEPT !.tid = @ + 1, !.k = 1]
      ELSE [at |-> "grow", tid |-> pc.tid + 1]

WCur == StreamsOf(fm)[pc.k]

\* sizes handed to the setters: every size up to MaxStep for the fixed
\* stream, one size for the var and validity streams
StepsOf(kind) == IF kind = "off" THEN 0..MaxStep ELSE {MaxStep}

WSetter(kind, op(_, _, _, _)) ==
  /\ pc.at = "tile"
  /\ WCur[2] = kind
  /\ \E step \in StepsOf(kind) :
       /\ fm' = op(fm, WCur[1], pc.tid, step)
       /\ hist' = [hist EXCEPT !.steps[WCur] = Append(@, step)]
  /\ pc' = WAdvance
  /\ WIdle

WSetTileOffset == WSetter("off", set_tile_offset)
WSetTileVarOffset == WSetter("var_off", set_tile_var_offset)
WSetTileVarSize == WSetter("var_size", set_tile_var_size)
WSetTileValidityOffset == WSetter("val", set_tile_validity_offset)

NextWriter ==
  \/ WInit
  \/ WSetNumTiles
  \/ WSetTileOffset
  \/ WSetTileVarOffset
  \/ WSetTileVarSize
  \/ WSetTileValidityOffset

SpecWriter == InitWriter /\ [][NextWriter]_vars

\* the writer has written every allocated tile of every written field
Built == pc.at = "grow"

StrictlyIncreasing(v) == \A k \in 1..(Len(v) - 1) : v[k] < v[k + 1]
NonDecreasing(v) == \A k \in 1..(Len(v) - 1) : v[k] <= v[k + 1]
AllPositive(v) == \A k \in 1..Len(v) : v[k] > 0

StepAt(p, tid, k) == (p + tid + k) % (MaxStep + 1)

\* the MBR of tile tid of a sparse write
MbrAt(sch, tid) ==
  [d \in 1..dim_num(sch) |->
     IF Schemas[sch].dimensions[d].var_size
     THEN << <<97 + tid>>, <<97 + tid, 98>> >>
     ELSE << Schemas[sch].dimensions[d].lo + tid,
             Schemas[sch].dimensions[d].lo + tid + 1 >>]

ApplySetter(f, s, tid, step) ==
  CASE s[2] = "off" -> set_tile_offset(f, s[1], tid, step)
    [] s[2] = "var_off" -> set_tile_var_offset(f, s[1], tid, step)
    [] s[2] = "var_size" -> set_tile_var_size(f, s[1], tid, step)
    [] s[2] = "val" -> set_tile_validity_offset(f, s[1], tid, step)

RECURSIVE WriteTiles(_, _, _, _)
WriteTiles(f, tid, k, p) ==
  IF tid >= Len(f.tile_offsets[0]) THEN f
  ELSE IF k > Len(StreamsOf(f))
  THEN WriteTiles(IF f.dense THEN f
                  ELSE set_mbr(f, tid, MbrAt(f.array_schema, tid)),
                  tid + 1, 1, p)
  ELSE WriteTiles(ApplySetter(f, StreamsOf(f)[k], tid, StepAt(p, tid, k)),
                  tid, k + 1, p)

\* FragmentMetadata::set_processed_conditions
set_processed_conditions(f, conds) == [f EXCEPT !.processed_conditions = conds]

WriterRun(sch, ver, dense, has_ts, has_dm, n, p) ==
  LET dim == Schemas[sch].dimensions[1]
      ned == IF dense THEN << <<dim.lo, dim.lo + n * dim.extent - 1>> >>
             ELSE << <<dim.lo, dim.lo>> >>
      f1 == set_num_tiles(
              init(FragmentMetadata(sch, ver, dense, has_ts, has_dm), ned), n)
  IN  Bind(WriteTiles(f1, 0, 1, p), LAMBDA f2 :
        Bind(IF ~dense /\ n > 0
             THEN set_last_tile_cell_num(f2, 1 + (p % Schemas[sch].capacity))
             ELSE f2, LAMBDA f3 :
          IF has_dm /\ p % 2 = 1
          THEN set_processed_conditions(f3, << <<99, 49>> >>) ELSE f3))

\* what is written: dense or sparse, the dimension type, the extra fields
WriterConfigs ==
  { [sch |-> "sf", dense |-> TRUE, has_ts |-> FALSE, has_dm |-> FALSE],
    [sch |-> "sf", dense |-> FALSE, has_ts |-> FALSE, has_dm |-> FALSE],
    [sch |-> "sf", dense |-> FALSE, has_ts |-> TRUE, has_dm |-> TRUE],
    [sch |-> "sv", dense |-> FALSE, has_ts |-> FALSE, has_dm |-> FALSE] }

\* the written fragments: timestamps exist from version 14 on and delete
\* metadata from version 15 on
Writable(ver, c, n) ==
  /\ c.dense => /\ n >= 1
                /\ n <= domain_tile_num(c.sch,
                          << <<Schemas[c.sch].dimensions[1].lo,
                               Schemas[c.sch].dimensions[1].hi>> >>)
  /\ c.has_ts => ver >= 14
  /\ c.has_dm => ver >= 15

StoreVersions == MinStoreVersion..write_version

InitStore ==
  /\ \E ver \in StoreVersions, c \in WriterConfigs, n \in 0..MaxTiles,
        p \in 0..MaxStep :
       /\ Writable(ver, c, n)
       /\ fm = WriterRun(c.sch, ver, c.dense, c.has_ts, c.has_dm, n, p)
       /\ hist = [p |-> p, fault |-> FALSE]
  /\ pc = [at |-> "built"]
  /\ file = <<>>
  /\ mt = [available |-> 0]
  /\ thr = <<>>
  /\ mtx = <<>>

SIdle == UNCHANGED <<hist, mt, thr, mtx>>

\* how a call of the VFS ends in this run: a Status that is ok, or one that
\* is not, which throw_if_not_ok throws; a write that fails may have put
\* part of its bytes in the file
VfsOutcomes ==
  IF hist.fault THEN {"ok", "failed", "failed_partial"} ELSE {"ok"}
Partial(blob) == [blob EXCEPT !.type = "partial", !.data = <<>>, !.nbytes = 0]
\* the file after a write of blob that ended as out
Wrote(blob, out) ==
  IF out = "ok" THEN Append(file, blob)
  ELSE IF out = "failed_partial" THEN Append(file, Partial(blob))
  ELSE file
\* the position after a step of store that ended as out: next when it was
\* ok, the catch block of store() when it threw
StoreStep(out, next, step) ==
  IF out = "ok" THEN next ELSE [at |-> "clean_up", cause |-> step]

\* store(): the version check, then the routine of the version
StoreBegin ==
  /\ pc.at = "built"
  /\ pc' = IF fm.version < MinStoreVersion THEN [at |-> "store_failed"]
           ELSE [at |-> "store", k |-> 1, offset |-> 0]
  /\ UNCHANGED <<fm, file>>
  /\ SIdle

\* gt_offsets_.<section> = offset; store_<section>(.., &nbytes);
\* offset += nbytes
StoreSection(kind) ==
  /\ pc.at = "store"
  /\ pc.k <= Len(store(fm))
  /\ store(fm)[pc.k][1] = kind
  /\ \E out \in VfsOutcomes,
        r \in {store_section(fm, store(fm)[pc.k], pc.offset)} :
       /\ fm' = r.f
       /\ file' = Wrote(r.blob, out)
       /\ pc' = StoreStep(out,
                          [pc EXCEPT !.k = @ + 1,
                             !.offset = advance_offset(@, r.blob.nbytes)],
                          kind)
  /\ SIdle

StoreRTree == StoreSection("rtree")
StoreTileOffsets == StoreSection("tile_offsets")
StoreTileVarOffsets == StoreSection("tile_var_offsets")
StoreTileVarSizes == StoreSection("tile_var_sizes")
StoreTileValidityOffsets == StoreSection("tile_validity_offsets")
StoreTileMins == StoreSection("tile_min")
StoreTileMaxs == StoreSection("tile_max")
StoreTileSums == StoreSection("tile_sum")
StoreTileNullCounts == StoreSection("tile_null_count")
StoreFragmentMinMaxSumNullCount ==
  StoreSection("fragment_min_max_sum_null_count")
StoreProcessedConditions == StoreSection("processed_conditions")

\* store_footer: serialize the footer and write it
StoreFooter ==
  /\ pc.at = "store"
  /\ pc.k > Len(store(fm))
  /\ \E out \in VfsOutcomes,
        blobs \in {write_footer_to_file(fm, write_footer(fm))} :
       /\ file' = Wrote(blobs[1], out)
       /\ pc' = StoreStep(out,
                          [at |-> IF Len(blobs) > 1 THEN "store_trailer"
                                  ELSE "store_close"],
                          "footer")
  /\ UNCHANGED fm
  /\ SIdle

\* write_footer_to_file: the second write, the size of the footer
StoreTrailer ==
  /\ pc.at = "store_trailer"
  /\ \E out \in VfsOutcomes :
       /\ file' = Wrote(write_footer_to_file(fm, file[Len(file)].data)[2],
                        out)
       /\ pc' = StoreStep(out, [at |-> "store_close"], "footer_size")
  /\ UNCHANGED fm
  /\ SIdle

\* close_file
StoreClose ==
  /\ pc.at = "store_close"
  /\ \E out \in VfsOutcomes \ {"failed_partial"} :
       pc' = StoreStep(out, [at |-> "stored"], "close_file")
  /\ UNCHANGED <<fm, file>>
  /\ SIdle

\* the catch block of store(): clean_up() closes the file and removes it,
\* each under throw_if_not_ok, and then the caught exception is thrown
\* nested in one that names the URI of the metadata file
CleanUp ==
  /\ pc.at = "clean_up"
  /\ \E close \in VfsOutcomes \ {"failed_partial"},
        remove \in VfsOutcomes \ {"failed_partial"} :
       IF close # "ok"
       THEN /\ pc' = [at |-> "store_threw", cause |-> "clean_up close_file",
                      nested |-> FALSE]
            /\ UNCHANGED file
       ELSE IF remove # "ok"
       THEN /\ pc' = [at |-> "store_threw", cause |-> "clean_up remove_file",
                      nested |-> FALSE]
            /\ UNCHANGED file
       ELSE /\ pc' = [at |-> "store_threw", cause |-> pc.cause,
                      nested |-> TRUE]
            /\ file' = <<>>
  /\ UNCHANGED fm
  /\ SIdle

StoreNext ==
  \/ StoreBegin
  \/ StoreRTree
  \/ StoreTileOffsets
  \/ StoreTileVarOffsets
  \/ StoreTileVarSizes
  \/ StoreTileValidityOffsets
  \/ StoreTileMins
  \/ StoreTileMaxs
  \/ StoreTileSums
  \/ StoreTileNullCounts
  \/ StoreFragmentMinMaxSumNullCount
  \/ StoreProcessedConditions
  \/ StoreFooter
  \/ StoreTrailer
  \/ StoreClose

SpecStore == InitStore /\ [][StoreNext]_vars

\* store() on a VFS whose calls may fail
InitStoreFaulty ==
  /\ \E ver \in StoreVersions, c \in WriterConfigs, n \in 0..MaxTiles :
       /\ Writable(ver, c, n)
       /\ fm = WriterRun(c.sch, ver, c.dense, c.has_ts, c.has_dm, n, 1)
  /\ hist = [p |-> 1, fault |-> TRUE]
  /\ pc = [at |-> "built"]
  /\ file = <<>>
  /\ mt = [available |-> 0]
  /\ thr = <<>>
  /\ mtx = <<>>

StoreFaultyNext ==
  \/ StoreNext
  \/ CleanUp

SpecStoreFaulty == InitStoreFaulty /\ [][StoreFaultyNext]_vars

\* every section in the order of the file layout
SectionOrder(f) ==
  << <<"rtree", 0>> >>
  \o PerField(f, "tile_offsets") \o PerField(f, "tile_var_offsets")
  \o PerField(f, "tile_var_sizes") \o PerField(f, "tile_validity_offsets")
  \o PerField(f, "tile_min") \o PerField(f, "tile_max")
  \o PerField(f, "tile_sum") \o PerField(f, "tile_null_count")
  \o << <<"fragment_min_max_sum_null_count", 0>>,
        <<"processed_conditions", 0>> >>

IsFooter(b) == b.sec[1] = "footer"
IsTrailer(b) == b.sec[1] = "footer_size"

\* the position of every section in the layout order
LayoutPos(f) ==
  LET order == SectionOrder(f)
  IN  [s \in {order[k] : k \in 1..Len(order)} |->
         CHOOSE k \in 1..Len(order) : order[k] = s]

\* the sections lie in layout order, the first at offset 0, each recorded
\* at the sum of the sizes before it, and the footer after all of them
C9_Layout ==
  LET pos == LayoutPos(fm)
  IN  /\ \A k \in 1..Len(file) :
           file[k].type = "generic" =>
             /\ GtOffsetOf(fm, file[k].sec) = FileOffset(file, k)
             /\ k = 1 <=> file[k].sec[1] = "rtree"
             /\ k > 1 => /\ file[k - 1].type = "generic"
                         /\ pos[file[k - 1].sec] < pos[file[k].sec]
      /\ \A k \in 1..Len(file) :
           IsFooter(file[k]) =>
             /\ k = Len(store(fm)) + 1
             /\ \A j \in 1..(k - 1) : file[j].sec = store(fm)[j]
             /\ file[k].data = write_footer(fm)

\* C9 as stated: the R-tree is written first at offset 0, every later
\* offset is the sum of the sizes of the sections before it, the footer is
\* written only after every section, and it is followed by its size
\* trailer.
C9_AsStated ==
  /\ C9_Layout
  /\ pc.at = "stored" =>
       /\ IsTrailer(file[Len(file)])
       /\ IsFooter(file[Len(file) - 1])

\* C9 amended: as stated, except that the footer is followed by its size
\* trailer only when some dimension is var-sized or the version is at
\* least 10; otherwise the footer is the last thing in the file.
C9_StoreOrder ==
  /\ C9_Layout
  /\ pc.at = "stored" =>
       IF ~all_dims_fixed(fm.array_schema) \/ fm.version >= 10
       THEN /\ IsTrailer(file[Len(file)])
            /\ IsFooter(file[Len(file) - 1])
            /\ file[Len(file)].data
                 = U(8, file[Len(file) - 1].nbytes, "footer_size")
       ELSE IsFooter(file[Len(file)])

\* a stored version-9 fragment with fixed dimensions and tiles
C9_Witness ==
  /\ pc.at = "stored"
  /\ fm.version = 9
  /\ all_dims_fixed(fm.array_schema)
  /\ tile_num(fm) >= 2
  /\ Len(file) = Len(store(fm)) + 1

(***************************************************************************)
(* The reader.  Threads share one FragmentMetadata; each runs the calls of *)
(* its program (todo, `done` of them made) and then up to `left` calls of  *)
(* its own choosing.                                                       *)
(* A thread is idle, waiting for the mutex of its loader (lock), or        *)
(* holding it in front of the read (size, read).                           *)
(***************************************************************************)
Op(name, kind, field, tid) ==
  [name |-> name, kind |-> kind, field |-> field, tid |-> tid]
NoOp == Op("none", "none", "none", 0)
Thread(todo, left) ==
  [at |-> "idle", op |-> NoOp, todo |-> todo, done |-> 0, left |-> left]

\* FragmentMetadata(resources, memory_tracker, array_schema, fragment_uri,
\* timestamp_range) as FragmentMetadata::load constructs it, and the size
\* of the file that load(key, nullptr, 0, schemas) takes first
OpenReader(sch, uri_version, fl) ==
  [FragmentMetadata(sch, write_version, TRUE, FALSE, FALSE) EXCEPT
     !.fragment_uri_version = uri_version,
     !.meta_file_size = file_size(fl)]

LoaderName(kind) ==
  CASE kind = "rtree" -> "load_rtree"
    [] kind = "tile_offsets" -> "load_tile_offsets"
    [] kind = "tile_var_offsets" -> "load_tile_var_offsets"
    [] kind = "tile_var_sizes" -> "load_tile_var_sizes"
    [] kind = "tile_validity_offsets" -> "load_tile_validity_offsets"
    [] kind = "tile_min" -> "load_tile_min_values"
    [] kind = "tile_max" -> "load_tile_max_values"
    [] kind = "tile_sum" -> "load_tile_sum_values"
    [] kind = "tile_null_count" -> "load_tile_null_count_values"
    [] kind = "fragment_min_max_sum_null_count" ->
         "load_fragment_min_max_sum_null_count"
    [] kind = "processed_conditions" -> "load_processed_conditions"
    [] kind = "footer" -> "load_footer"

\* the accessors that read a section
AccessorsOf(kind) ==
  CASE kind = "tile_offsets" -> {"file_offset", "persisted_tile_size"}
    [] kind = "tile_var_offsets" ->
         {"file_var_offset", "persisted_tile_var_size"}
    [] kind = "tile_validity_offsets" ->
         {"file_validity_offset", "persisted_tile_validity_size"}
    [] kind = "tile_var_sizes" -> {"tile_var_size"}
    [] kind = "tile_min" -> {"get_tile_min_as", "get_tile_min_as_string_view"}
    [] kind = "tile_max" -> {"get_tile_max_as", "get_tile_max_as_string_view"}
    [] kind = "tile_sum" -> {"get_tile_sum"}
    [] kind = "tile_null_count" -> {"get_tile_null_count"}
    [] kind = "fragment_min_max_sum_null_count" ->
         {"get_min", "get_max", "get_sum", "get_null_count"}
    [] kind = "processed_conditions" -> {"get_processed_conditions"}
    [] kind = "rtree" -> {"mbr", "mbrs", "get_tile_overlap",
                          "compute_tile_bitmap", "get_tile_metadata"}
    [] OTHER -> {}

\* the section an accessor reads
SectionOf(name) == CHOOSE kind \in Sections : name \in AccessorsOf(kind)

\* the index of the field of a call
IdxOf(f, o) == IF o.kind \in PerFieldKinds THEN f.idx_map[o.field] ELSE 0

\* the calls a caller may make on the section in focus: the footer load
\* when the footer is in focus, the rest once load() has returned
Menu(f, focus) ==
  LET kind == focus[1]
      field == focus[2]
      tids == IF tile_num(f) = 0 THEN {} ELSE {0}
      per_tile == {"file_offset", "persisted_tile_size", "file_var_offset",
                   "persisted_tile_var_size", "file_validity_offset",
                   "persisted_tile_validity_size", "tile_var_size",
                   "get_tile_min_as", "get_tile_min_as_string_view",
                   "get_tile_max_as", "get_tile_max_as_string_view",
                   "get_tile_sum", "get_tile_null_count", "mbr",
                   "get_tile_metadata"}
  IN  (IF kind = "footer" THEN {Op("load_footer", "footer", field, 0)}
       ELSE {})
      \cup (IF ~f.loaded_metadata.footer \/ kind = "footer" THEN {}
            ELSE {Op(LoaderName(kind), kind, field, 0)}
                 \cup (IF kind = "rtree"
                       THEN {Op("free_rtree", kind, field, 0)} ELSE {})
                 \cup (IF kind \in {"tile_offsets", "tile_var_offsets",
                                    "tile_var_sizes", "tile_validity_offsets"}
                       THEN {Op("free_tile_offsets", kind, field, 0)}
                       ELSE {})
                 \cup {Op(n, kind, field, 0) :
                         n \in AccessorsOf(kind) \ per_tile}
                 \cup {Op(n, kind, field, t) :
                         n \in AccessorsOf(kind) \cap per_tile, t \in tids})

\* the calls of a given name that thread t may start now; nothing but
\* the footer load is called on an object whose load() has not returned,
\* and a field is named only if the object has it
NextOp(t, name) ==
  IF thr[t].at # "idle" THEN {}
  ELSE IF thr[t].done < Len(thr[t].todo)
  THEN {o \in {thr[t].todo[thr[t].done + 1]} :
          /\ o.name = name
          /\ name = "load_footer" \/ fm.loaded_metadata.footer
          /\ o.kind \in PerFieldKinds => o.field \in DOMAIN fm.idx_map}
  ELSE IF thr[t].left = 0 THEN {}
  ELSE {o \in Menu(fm, hist.focus) : o.name = name}

\* thread t with call o started
Started(t, o) ==
  [thr[t] EXCEPT
     !.op = o,
     !.done = IF @ < Len(thr[t].todo) THEN @ + 1 ELSE @,
     !.left = IF thr[t].done < Len(thr[t].todo) THEN @ ELSE @ - 1]

Lock(m, t) == (m :> t) @@ mtx
UnlockLate(m) == mtx
Unlock(m) == [x \in DOMAIN mtx \ {m} |-> mtx[x]]

\* one more read of a region of the file
CountRead(h, sec) ==
  [h EXCEPT !.reads = (sec :> (IF sec \in DOMAIN @ THEN @[sec] + 1 ELSE 1))
                      @@ @]

\* the faults a read may suffer in this run
Faults == IF hist.fault = "none" THEN {"none"} ELSE {"none", hist.fault}

Void == [raised |-> FALSE, val |-> "void"]

\* the call of thread th returns: err is the exception, out the value,
\* early whether it returned on a set flag (loaders) and flag the loaded
\* flag at the call (accessors); f2 and m2 are the object and the tracker
\* it leaves, h the history so far
Return(t, th, err, out, early, flag, f2, m2, h) ==
  /\ thr' = [thr EXCEPT ![t] = [th EXCEPT !.at = "idle"]]
  /\ hist' = IF h.logging
             THEN [h EXCEPT !.log = Append(@,
                     [op |-> th.op, err |-> err, out |-> out,
                      early |-> early, flag |-> flag, fm |-> f2, mt |-> m2])]
             ELSE h
  /\ fm' = f2
  /\ mt' = m2

\* the call of thread t moves on to its next position
Goto(t, th, at, f2, m2, h) ==
  /\ thr' = [thr EXCEPT ![t] = [th EXCEPT !.at = at]]
  /\ hist' = h
  /\ fm' = f2
  /\ mt' = m2

\* load_footer: lock, flag, footer offset and size, charge, read, parse
LoadFooter ==
  \E t \in DOMAIN thr :
    IF thr[t].at = "idle"
    THEN \E o \in NextOp(t, "load_footer") :
           /\ Goto(t, Started(t, o), "lock", fm, mt, hist)
           /\ UNCHANGED <<pc, file, mtx>>
    ELSE /\ thr[t].op.name = "load_footer"
         /\ UNCHANGED <<pc, file>>
         /\ IF thr[t].at = "lock"
            THEN /\ <<"mtx", 0>> \notin DOMAIN mtx
                 /\ IF fm.loaded_metadata.footer
                    THEN /\ Return(t, thr[t], "none", Void, TRUE, TRUE, fm, mt,
                                   hist)
                         /\ UNCHANGED mtx
                    ELSE /\ Goto(t, thr[t], "size", fm, mt, hist)
                         /\ mtx' = Lock(<<"mtx", 0>>, t)
            ELSE IF thr[t].at = "size"
            THEN \E fault \in Faults,
                    f0 \in {[fm EXCEPT !.has_consolidated_footer = FALSE]} :
                 \E r \in {get_footer_offset_and_size(f0, file)} :
                 \E f1 \in {[f0 EXCEPT !.footer_size = r.size,
                                       !.footer_offset = r.offset]},
                    h \in {IF r.io
                           THEN CountRead(hist, <<"footer_size", 0>>)
                           ELSE hist},
                    failed \in {r.io /\ (fault = "io" \/ ~r.ok)} :
                       IF failed
                       THEN /\ Return(t, thr[t], "io", Raise, FALSE, FALSE, f0,
                                      mt, hist)
                            /\ mtx' = Unlock(<<"mtx", 0>>)
                       ELSE IF ~can_take_memory(mt, r.size)
                       THEN /\ Return(t, thr[t], "budget", Raise, FALSE, FALSE,
                                      f1, mt, h)
                            /\ mtx' = Unlock(<<"mtx", 0>>)
                       ELSE /\ Goto(t, thr[t], "read", f1,
                                    take_memory(mt, r.size, "FOOTER"), h)
                            /\ UNCHANGED mtx
            ELSE \E fault \in Faults,
                    r \in {vfs_read(file, fm.footer_offset,
                                    fm.footer_size)} :
                 \E s \in {load_footer(fm, r.data, hist.array_schemas, mt)},
                    h \in {CountRead(hist, <<"footer", 0>>)},
                    failed \in {fault = "io" \/ ~r.ok} :
                       /\ thr[t].at = "read"
                       /\ mtx' = Unlock(<<"mtx", 0>>)
                       /\ IF failed
                          THEN Return(t, thr[t], "io", Raise, FALSE, FALSE, fm,
                                      mt, hist)
                          ELSE IF ~s.ok
                          THEN Return(t, thr[t], s.err, Raise, FALSE, FALSE,
                                      s.f, mt, h)
                          ELSE Return(t, thr[t], "none", Void, FALSE, FALSE,
                                      s.f, mt, h)

\* a lazy loader of a section: version gate, flag, lock, flag, read,
\* deserialization, flag
Loader(kind, Deserialize(_, _, _)) ==
  \E t \in DOMAIN thr :
    IF thr[t].at = "idle"
    THEN \E o \in NextOp(t, LoaderName(kind)) :
           /\ IF \/ LoaderSkips(kind, fm.version)
                 \/ ChecksBeforeLock(kind) /\ Loaded(fm, kind, IdxOf(fm, o))
              THEN Return(t, Started(t, o), "none", Void, TRUE, TRUE, fm, mt,
                          hist)
              ELSE Goto(t, Started(t, o), "lock", fm, mt, hist)
           /\ UNCHANGED <<pc, file, mtx>>
    ELSE LET idx == IdxOf(fm, thr[t].op)
             m == LoaderMutex(kind, idx)
         IN  /\ thr[t].op.name = LoaderName(kind)
             /\ UNCHANGED <<pc, file>>
             /\ IF thr[t].at = "lock"
                THEN /\ m \notin DOMAIN mtx
                     /\ IF ChecksUnderLock(kind) /\ Loaded(fm, kind, idx)
                        THEN /\ Return(t, thr[t], "none", Void, TRUE, TRUE, fm,
                                       mt, hist)
                             /\ UNCHANGED mtx
                        ELSE /\ Goto(t, thr[t], "read", fm, mt, hist)
                             /\ mtx' = Lock(m, t)
                ELSE \E fault \in Faults,
                        r \in {read_generic(file,
                                            GtOffsetOf(fm, <<kind, idx>>))} :
                     \E buf \in {IF fault = "short"
                                 THEN SubSeq(r.data, 1, Len(r.data) - 1)
                                 ELSE r.data} :
                     \E s \in {LoadSectionFrom(fm, mt, kind, idx, buf,
                                               Deserialize)},
                        h \in {CountRead(hist, <<kind, idx>>)},
                        failed \in {fault = "io" \/ ~r.ok} :
                           /\ thr[t].at = "read"
                           /\ mtx' = Unlock(m)
                           /\ IF failed
                              THEN Return(t, thr[t], "io", Raise, FALSE, FALSE,
                                          fm, mt, hist)
                              ELSE Return(t, thr[t], s.err,
                                          IF s.ok THEN Void ELSE Raise, FALSE,
                                          FALSE, s.f, s.mt, h)

LoadRTree == Loader("rtree", LAMBDA s, buf, idx : load_rtree_from(s, buf))
LoadTileOffsets == Loader("tile_offsets", load_tile_offsets_from)
LoadTileVarOffsets == Loader("tile_var_offsets", load_tile_var_offsets_from)
LoadTileVarSizes == Loader("tile_var_sizes", load_tile_var_sizes_from)
LoadTileValidityOffsets ==
  Loader("tile_validity_offsets", load_tile_validity_offsets_from)
LoadTileMinValues == Loader("tile_min", load_tile_min_values_from)
LoadTileMaxValues == Loader("tile_max", load_tile_max_values_from)
LoadTileSumValues == Loader("tile_sum", load_tile_sum_values_from)
LoadTileNullCountValues ==
  Loader("tile_null_count", load_tile_null_count_values_from)
LoadFragmentMinMaxSumNullCount ==
  Loader("fragment_min_max_sum_null_count", LAMBDA s, buf, idx :
           load_fragment_min_max_sum_null_count_from(s, buf, 0))
LoadProcessedConditions ==
  Loader("processed_conditions", LAMBDA s, buf, idx :
           load_processed_conditions_from(s, buf))

\* the accessors whose check of the flag is an assert: the outcome depends
\* on whether the build defines NDEBUG
Asserting == {"get_tile_overlap", "compute_tile_bitmap", "mbr",
              "get_tile_metadata"}

\* a call of an accessor; it takes no lock and changes nothing
Accessor(name, Call(_, _, _)) ==
  \E t \in DOMAIN thr :
    \E o \in NextOp(t, name) :
      \E ndebug \in IF name \in Asserting THEN BOOLEAN ELSE {TRUE} :
        /\ Return(t, Started(t, o), "none", Call(fm, o, ndebug), FALSE,
                  Loaded(fm, o.kind, IdxOf(fm, o)), fm, mt, hist)
        /\ UNCHANGED <<pc, file, mtx>>

FileOffsetCall ==
  Accessor("file_offset", LAMBDA f, o, nd : file_offset(f, o.field, o.tid))
FileVarOffsetCall ==
  Accessor("file_var_offset", LAMBDA f, o, nd :
             file_var_offset(f, o.field, o.tid))
FileValidityOffsetCall ==
  Accessor("file_validity_offset", LAMBDA f, o, nd :
             file_validity_offset(f, o.field, o.tid))
PersistedTileSize ==
  Accessor("persisted_tile_size", LAMBDA f, o, nd :
             persisted_tile_size(f, o.field, o.tid))
PersistedTileVarSize ==
  Accessor("persisted_tile_var_size", LAMBDA f, o, nd :
             persisted_tile_var_size(f, o.field, o.tid))
PersistedTileValiditySize ==
  Accessor("persisted_tile_validity_size", LAMBDA f, o, nd :
             persisted_tile_validity_size(f, o.field, o.tid))
TileVarSize ==
  Accessor("tile_var_size", LAMBDA f, o, nd : tile_var_size(f, o.field, o.tid))
GetTileMinAs ==
  Accessor("get_tile_min_as", LAMBDA f, o, nd :
             get_tile_min_as(f, o.field, o.tid))
GetTileMinAsStringView ==
  Accessor("get_tile_min_as_string_view", LAMBDA f, o, nd :
             get_tile_min_as_string_view(f, o.field, o.tid))
GetTileMaxAs ==
  Accessor("get_tile_max_as", LAMBDA f, o, nd :
             get_tile_max_as(f, o.field, o.tid))
GetTileMaxAsStringView ==
  Accessor("get_tile_max_as_string_view", LAMBDA f, o, nd :
             get_tile_max_as_string_view(f, o.field, o.tid))
GetTileSum ==
  Accessor("get_tile_sum", LAMBDA f, o, nd : get_tile_sum(f, o.field, o.tid))
GetTileNullCount ==
  Accessor("get_tile_null_count", LAMBDA f, o, nd :
             get_tile_null_count(f, o.field, o.tid))
GetMin == Accessor("get_min", LAMBDA f, o, nd : get_min(f, o.field))
GetMax == Accessor("get_max", LAMBDA f, o, nd : get_max(f, o.field))
GetSum == Accessor("get_sum", LAMBDA f, o, nd : get_sum(f, o.field))
GetNullCount ==
  Accessor("get_null_count", LAMBDA f, o, nd : get_null_count(f, o.field))
GetProcessedConditions ==
  Accessor("get_processed_conditions", LAMBDA f, o, nd :
             get_processed_conditions(f))
Mbr == Accessor("mbr", LAMBDA f, o, nd : mbr(f, o.tid, nd))
Mbrs == Accessor("mbrs", LAMBDA f, o, nd : mbrs(f))
GetTileOverlap ==
  Accessor("get_tile_overlap", LAMBDA f, o, nd :
             get_tile_overlap(f, MbrAt(f.array_schema, 0), nd))
ComputeTileBitmap ==
  Accessor("compute_tile_bitmap", LAMBDA f, o, nd :
             compute_tile_bitmap(f, MbrAt(f.array_schema, 0)[1], 1, nd))
GetTileMetadata ==
  Accessor("get_tile_metadata", LAMBDA f, o, nd :
             get_tile_metadata(f, o.field, o.tid, nd))

\* free_rtree takes no lock
FreeRTree ==
  \E t \in DOMAIN thr :
    \E o \in NextOp(t, "free_rtree") :
      LET r == free_rtree(fm, mt)
      IN  /\ Return(t, Started(t, o), "none", Void, FALSE, FALSE, r.f, r.mt,
                    hist)
          /\ UNCHANGED <<pc, file, mtx>>

\* free_tile_offsets locks the mutex of every vector in turn
FreeTileOffsets ==
  \E t \in DOMAIN thr :
    \E o \in NextOp(t, "free_tile_offsets") :
      LET r == free_tile_offsets(fm, mt)
      IN  /\ mtx = <<>>
          /\ Return(t, Started(t, o), "none", Void, FALSE, FALSE, r.f, r.mt,
                    hist)
          /\ UNCHANGED <<pc, file, mtx>>

LoadNext ==
  \/ LoadFooter
  \/ LoadRTree
  \/ LoadTileOffsets
  \/ LoadTileVarOffsets
  \/ LoadTileVarSizes
  \/ LoadTileValidityOffsets
  \/ LoadTileMinValues
  \/ LoadTileMaxValues
  \/ LoadTileSumValues
  \/ LoadTileNullCountValues
  \/ LoadFragmentMinMaxSumNullCount
  \/ LoadProcessedConditions

ReaderNext ==
  \/ LoadNext
  \/ FreeRTree
  \/ FreeTileOffsets
  \/ FileOffsetCall
  \/ FileVarOffsetCall
  \/ FileValidityOffsetCall
  \/ PersistedTileSize
  \/ PersistedTileVarSize
  \/ PersistedTileValiditySize
  \/ TileVarSize
  \/ GetTileMinAs
  \/ GetTileMinAsStringView
  \/ GetTileMaxAs
  \/ GetTileMaxAsStringView
  \/ GetTileSum
  \/ GetTileNullCount
  \/ GetMin
  \/ GetMax
  \/ GetSum
  \/ GetNullCount
  \/ GetProcessedConditions
  \/ Mbr
  \/ Mbrs
  \/ GetTileOverlap
  \/ ComputeTileBitmap
  \/ GetTileMetadata

(***************************************************************************)
(* Reader runs.  A run starts from the file that store() leaves for a      *)
(* written fragment and a FragmentMetadata constructed for loading.        *)
(***************************************************************************)
\* store(): sections lo..hi of the list in order, then the footer (the
\* state so far is bound as a value, and the range is halved, to keep the
\* evaluation shallow)
RECURSIVE StoreFrom(_, _, _)
StoreFrom(st, lo, hi) ==
  IF lo > hi THEN st
  ELSE CHOOSE out \in
         { IF lo = hi
           THEN LET r == store_section(s.f, store(s.f)[lo], s.offset)
                IN  [f |-> r.f, file |-> Append(s.file, r.blob),
                     offset |-> advance_offset(s.offset, r.blob.nbytes)]
           ELSE StoreFrom(StoreFrom(s, lo, (lo + hi) \div 2),
                          (lo + hi) \div 2 + 1, hi) : s \in {st} } : TRUE
Stored(w) ==
  Bind(StoreFrom([f |-> w, file |-> <<>>, offset |-> 0], 1, Len(store(w))),
       LAMBDA st :
         [f |-> st.f,
          file |-> st.file \o write_footer_to_file(st.f, write_footer(st.f))])

\* the schemas of the array by name, as load() is given them
ArraySchemas(w) == SchemaName(w.array_schema, w.version) :> w.array_schema
NoSchemas == <<>>

\* load_footer as load_v3_or_higher runs it, on a file that reads well
FooterParse(w, fl, m) ==
  Bind([OpenReader(w.array_schema, w.version, fl) EXCEPT
          !.has_consolidated_footer = FALSE], LAMBDA f0 :
    Bind(get_footer_offset_and_size(f0, fl), LAMBDA r :
      load_footer([f0 EXCEPT !.footer_size = r.size,
                             !.footer_offset = r.offset],
                  vfs_read(fl, r.offset, r.size).data, ArraySchemas(w),
                  take_memory(m, r.size, "FOOTER"))))
OpenAndLoad(w, fl, m) ==
  Bind(FooterParse(w, fl, m), LAMBDA r : [f |-> r.f, mt |-> r.mt])

\* the state a reader run starts in
ReaderInit(w, p, focus, fault, budget, schemas, opened, logging, threads) ==
  \E st \in {Stored(w)} :
    \E o \in {IF opened THEN OpenAndLoad(w, st.file, MemoryTracker(budget))
              ELSE [f |-> OpenReader(w.array_schema, w.version, st.file),
                    mt |-> MemoryTracker(budget)]} :
      /\ file = st.file
      /\ fm = o.f
      /\ mt = o.mt
      /\ hist = [p |-> p, writer |-> st.f, focus |-> focus, fault |-> fault,
                 array_schemas |-> schemas, reads |-> <<>>,
                 logging |-> logging, log |-> <<>>, fm0 |-> o.f,
                 mt0 |-> o.mt]
      /\ thr = threads
      /\ mtx = <<>>
      /\ pc = [at |-> "reading"]

\* load() and every loader once, in the order of the file
LoadAll(w) ==
  << Op("load_footer", "footer", "none", 0) >>
  \o [k \in 1..Len(SectionOrder(w)) |->
        Op(LoaderName(SectionOrder(w)[k][1]), SectionOrder(w)[k][1],
           IF SectionOrder(w)[k][1] \in PerFieldKinds
           THEN NameOf(w, SectionOrder(w)[k][2]) ELSE "none", 0)]

Ample == 1000

InitRoundTrip ==
  \E ver \in StoreVersions, c \in WriterConfigs, n \in 0..MaxTiles,
     p \in 0..MaxStep :
    /\ Writable(ver, c, n)
    /\ \E w \in {WriterRun(c.sch, ver, c.dense, c.has_ts, c.has_dm, n, p)} :
         ReaderInit(w, p, <<"footer", "none">>, "none", Ample,
                    ArraySchemas(w), FALSE, FALSE,
                    << Thread(LoadAll(w), 0) >>)

SpecRoundTrip == InitRoundTrip /\ [][LoadNext]_vars

(***************************************************************************)
(* Store and load                                                          *)
(***************************************************************************)
\* the call of load_footer has returned / every call of the program has
LoadReturned == thr[1].at = "idle" /\ thr[1].done >= 1
AllReturned == thr[1].at = "idle" /\ thr[1].done = Len(thr[1].todo)

\* the fields of the footer by the names of the members
FooterFieldNames ==
  {"version", "array_schema_name", "dense", "non_empty_domain",
   "sparse_tile_num", "last_tile_cell_num", "has_timestamps",
   "has_delete_meta", "file_sizes", "file_var_sizes", "file_validity_sizes",
   "gt_offsets"}

\* the members a lazy section is loaded into
SectionMembers(kind) ==
  CASE kind = "rtree" -> {"rtree"}
    [] kind = "tile_min" -> {"tile_min_buffer", "tile_min_var_buffer"}
    [] kind = "tile_max" -> {"tile_max_buffer", "tile_max_var_buffer"}
    [] kind = "tile_sum" -> {"tile_sums"}
    [] kind = "tile_null_count" -> {"tile_null_counts"}
    [] kind = "fragment_min_max_sum_null_count" ->
         {"fragment_mins", "fragment_maxs", "fragment_sums",
          "fragment_null_counts"}
    [] OTHER -> {kind}

\* what the accessors of a section read
SectionData(f, kind, idx) ==
  [member \in SectionMembers(kind) |->
     IF kind = "rtree" THEN f.rtree.leaves
     ELSE IF kind \in PerFieldKinds THEN f[member][idx]
     ELSE f[member]]

\* C8: for every version from 7 on and every written fragment, load() of
\* the stored file succeeds and leaves the footer fields of the writer
\* (the name of the schema is stored from version 10 on), and every
\* section loaded afterwards holds what the writer's object holds.
C8_RoundTrip ==
  LoadReturned =>
    /\ fm.loaded_metadata.footer
    /\ \A n \in FooterFieldNames :
         (n = "array_schema_name" /\ fm.version < 10)
         \/ fm[n] = hist.writer[n]
    /\ \A kind \in Sections :
         \A idx \in 0..(num_dims_and_attrs(fm) - 1) :
           (kind \in PerFieldKinds \/ idx = 0) /\ Loaded(fm, kind, idx) =>
             SectionData(fm, kind, idx) = SectionData(hist.writer, kind, idx)

\* the size the writer passed for tile tid of a stream of a field (0 for
\* a stream it never wrote)
WrittenSize(name, stream, tid) ==
  LET ss == StreamsOf(hist.writer)
      ks == {k \in 1..Len(ss) : ss[k] = <<name, stream>>}
  IN  IF ks = {} THEN 0 ELSE StepAt(hist.p, tid, CHOOSE k \in ks : TRUE)

\* the sizes an accessor reports for a field, against the offsets and the
\* file size it is computed from and against the sizes written
SizesAgree(name, stream, size(_, _, _), offsets, file_size_of_field) ==
  LET n == tile_num(fm)
  IN  /\ \A tid \in 0..(n - 1) :
           /\ size(fm, name, tid) =
                Ret(IF tid < n - 1 THEN offsets[tid + 2] - offsets[tid + 1]
                    ELSE file_size_of_field - offsets[n])
           /\ size(fm, name, tid).val = WrittenSize(name, stream, tid)
      /\ SumSeq([k \in 1..n |-> size(fm, name, k - 1).val])
           = file_size_of_field

\* C6: once the writer has set the offset of every tile of a field in
\* increasing tile order (a fragment of one tile at least) and the
\* fragment is stored and loaded, persisted_tile_size is the difference of
\* consecutive tile offsets, for the last tile the rest of the file, it is
\* the size written, and the sizes of all tiles add up to file_sizes; the
\* same for the var and the validity offsets.
C6_PersistedTileSize ==
  IF ~fm.loaded_metadata.footer \/ tile_num(hist.writer) = 0 THEN TRUE
  ELSE \A name \in DOMAIN fm.idx_map :
         LET i == fm.idx_map[name]
         IN  /\ fm.loaded_metadata.tile_offsets[i] =>
                  SizesAgree(name, "off", persisted_tile_size,
                             fm.tile_offsets[i], fm.file_sizes[i])
             /\ fm.loaded_metadata.tile_var_offsets[i] =>
                  SizesAgree(name, "var_off", persisted_tile_var_size,
                             fm.tile_var_offsets[i], fm.file_var_sizes[i])
             /\ fm.loaded_metadata.tile_validity_offsets[i] =>
                  SizesAgree(name, "val", persisted_tile_validity_size,
                             fm.tile_validity_offsets[i],
                             fm.file_validity_sizes[i])

\* a fragment of two tiles or more whose three offset sections of the
\* attribute are loaded and hold tiles of different sizes
C6_Witness ==
  /\ AllReturned
  /\ fm.loaded_metadata.footer
  /\ tile_num(fm) >= 2
  /\ fm.loaded_metadata.tile_offsets[0]
  /\ fm.loaded_metadata.tile_var_offsets[0]
  /\ fm.loaded_metadata.tile_validity_offsets[0]
  /\ persisted_tile_size(fm, "a", 0).val > 0
  /\ persisted_tile_size(fm, "a", tile_num(fm) - 1).val
       # persisted_tile_size(fm, "a", 0).val
  /\ persisted_tile_var_size(fm, "a", tile_num(fm) - 1).val > 0
  /\ persisted_tile_validity_size(fm, "a", 0).val > 0

\* the fields and the sections the format assigns to a version
FormatFields(v) ==
  {"version", "dense", "non_empty_domain", "sparse_tile_num",
   "last_tile_cell_num", "file_sizes", "file_var_sizes",
   "file_validity_sizes", "rtree_offset", "tile_offsets_offsets",
   "tile_var_offsets_offsets", "tile_var_sizes_offsets",
   "tile_validity_offsets_offsets"}
  \cup (IF v >= 10 THEN {"array_schema_name"} ELSE {})
  \cup (IF v >= 14 THEN {"has_timestamps"} ELSE {})
  \cup (IF v >= 15 THEN {"has_delete_meta"} ELSE {})
  \cup (IF v >= 11
        THEN {"tile_min_offsets", "tile_max_offsets", "tile_sum_offsets",
              "tile_null_count_offsets"} ELSE {})
  \cup (IF v >= 12 THEN {"fragment_min_max_sum_null_count_offset"} ELSE {})
  \cup (IF v >= 16 THEN {"processed_conditions_offsets"} ELSE {})
FormatSections(v) ==
  {"rtree", "tile_offsets", "tile_var_offsets", "tile_var_sizes",
   "tile_validity_offsets"}
  \cup (IF v >= 11
        THEN {"tile_min", "tile_max", "tile_sum", "tile_null_count"}
        ELSE {})
  \cup (IF v >= 12 THEN {"fragment_min_max_sum_null_count"} ELSE {})
  \cup (IF v >= 16 THEN {"processed_conditions"} ELSE {})

\* what store wrote: the fields of the footer and the sections
FieldsWritten ==
  UNION {{file[k].data[j][3] : j \in 1..Len(file[k].data)} :
           k \in {k \in 1..Len(file) : IsFooter(file[k])}}
SectionsWritten ==
  {file[k].sec[1] : k \in {k \in 1..Len(file) : file[k].type = "generic"}}
\* what load_footer read of the stored footer
FieldsRead ==
  LET fields == FooterParse(hist.writer, file, mt).fields
  IN  {fields[j] : j \in 1..Len(fields)}

\* C10: for every version from 7 on, the sections store writes and the
\* fields the footer is written with and read with are those of the
\* version: the schema name from 10 on, has_timestamps from 14 on,
\* has_delete_meta from 15 on, the tile min/max/sum/null-count sections and
\* offsets from 11 on, the fragment min/max/sum/null-count section and
\* offset from 12 on, the processed conditions section and offset from 16
\* on (stated of the fragments with a tile, whose footer load() reads back)
C10_VersionedFormat ==
  LoadReturned /\ fm.loaded_metadata.footer /\ tile_num(hist.writer) > 0 =>
    /\ FieldsWritten = FormatFields(hist.writer.version)
    /\ FieldsRead = FormatFields(hist.writer.version)
    /\ SectionsWritten = FormatSections(hist.writer.version)

(***************************************************************************)
(* Concurrent loads: every thread calls the loader of the section in focus *)
(***************************************************************************)
MaxThreads == 2

\* the sections and, for the sections kept per field, the fields in focus
Foci == (Sections \cup {"footer"}) \X {"a", "d"}

\* the fragments read: sparse, of the current version, with tiles
ReadConfigs == {c \in WriterConfigs : ~c.dense /\ (c.sch = "sv" \/ c.has_dm)}
ReadFragments == {[c |-> c, p |-> 1] : c \in ReadConfigs}
Written(r) ==
  WriterRun(r.c.sch, write_version, r.c.dense, r.c.has_ts, r.c.has_dm,
            MaxTiles, r.p)

InitConc ==
  \E r \in ReadFragments, focus \in Foci :
    \E w \in {Written(r)} :
      ReaderInit(w, r.p, focus, "none", Ample, ArraySchemas(w),
                 focus[1] # "footer", TRUE,
                 [t \in 1..MaxThreads |->
                    Thread(<< Op(LoaderName(focus[1]), focus[1], focus[2],
                                 0) >>, 0)])

SpecConc == InitConc /\ [][LoadNext]_vars

(***************************************************************************)
(* One caller: up to MaxOps calls of its choosing on the section in focus, *)
(* on storage that may fail, with a budget that may be used up, with or    *)
(* without the schema in the map                                           *)
(***************************************************************************)
MaxOps == 2

Scenarios ==
  {[fault |-> "none", tight |-> FALSE, schemas |-> TRUE],
   [fault |-> "io", tight |-> FALSE, schemas |-> TRUE],
   [fault |-> "short", tight |-> FALSE, schemas |-> TRUE],
   [fault |-> "none", tight |-> TRUE, schemas |-> TRUE],
   [fault |-> "none", tight |-> FALSE, schemas |-> FALSE]}

\* the budget that load() uses up
FooterBudget(w) ==
  Bind(Stored(w).file, LAMBDA fl :
    get_footer_offset_and_size(OpenReader(w.array_schema, w.version, fl),
                               fl).size)

InitSeq ==
  \E r \in ReadFragments, focus \in Foci, sc \in Scenarios :
    \E w \in {Written(r)}, opened \in {focus[1] # "footer"} :
      /\ ~sc.schemas => ~opened
      /\ ReaderInit(w, r.p, focus, sc.fault,
                    IF ~sc.tight THEN Ample
                    ELSE IF opened THEN FooterBudget(w) ELSE 0,
                    IF sc.schemas THEN ArraySchemas(w) ELSE NoSchemas,
                    opened, TRUE, << Thread(<<>>, MaxOps) >>)

SpecSeq == InitSeq /\ [][ReaderNext]_vars

(***************************************************************************)
(* Claims on the reader                                                    *)
(***************************************************************************)
\* the state before the k-th call that returned
Before(k) ==
  IF k = 1 THEN [fm |-> hist.fm0, mt |-> hist.mt0]
  ELSE [fm |-> hist.log[k - 1].fm, mt |-> hist.log[k - 1].mt]

Loaders == {LoaderName(kind) : kind \in Sections \cup {"footer"}}
Accessors == UNION {AccessorsOf(kind) : kind \in Sections}

\* C1: in every state reached by loads, frees and accessor calls, an
\* accessor of a lazy section (get_tile_metadata: on a dimension, for the
\* R-tree) that is called while the flag of the section is false raises
\* an error and returns no data.
C1_AccessorGuards ==
  \A k \in DOMAIN hist.log :
    LET e == hist.log[k]
    IN  /\ e.op.name \in Accessors
        /\ ~e.flag
        /\ e.op.name = "get_tile_metadata" =>
             is_dim(Before(k).fm.array_schema, e.op.field)
        => e.out.raised

\* C2: when several threads call the loader of a section that is not
\* loaded, the section is read from storage once; the other callers
\* return without I/O.
C2_ReadOnce == \A sec \in DOMAIN hist.reads : hist.reads[sec] <= 1

\* C3: a load that fails (storage error, payload shorter than declared,
\* schema missing from the map) returns with the mutex released and with
\* the flag false and the object and the tracker as before the call.
C3_FailedLoad ==
  \A k \in DOMAIN hist.log :
    LET e == hist.log[k]
    IN  e.op.name \in Loaders /\ e.err \in {"io", "deserializer", "schema"}
        => /\ e.fm = Before(k).fm
           /\ e.mt = Before(k).mt
           /\ ~Loaded(e.fm, e.op.kind, IdxOf(e.fm, e.op))
           /\ (thr[1].at = "idle" => mtx = <<>>)

\* C4: a load takes the memory of its section from the tracker before it
\* holds the section, and a load that the tracker refuses leaves the
\* object and the tracker as before the call.
C4_Budget ==
  \A k \in DOMAIN hist.log :
    LET e == hist.log[k]
    IN  /\ e.op.name \in Loaders /\ e.err = "budget" =>
             e.fm = Before(k).fm /\ e.mt = Before(k).mt
        /\ e.op.name \in Loaders \ {"load_footer"} /\ e.err = "none"
           /\ SectionData(e.fm, e.op.kind, IdxOf(e.fm, e.op))
                # SectionData(Before(k).fm, e.op.kind, IdxOf(e.fm, e.op))
           => e.mt.available < Before(k).mt.available

(***************************************************************************)
(* Load, free, load: one caller loads a section that can be freed, frees   *)
(* it and loads it again, with or without another section loaded before    *)
(***************************************************************************)
FreeGroup ==
  {"tile_offsets", "tile_var_offsets", "tile_var_sizes",
   "tile_validity_offsets"}
Freeable == ({"rtree"} \cup FreeGroup) \X {"a", "d"}
FreeName(kind) == IF kind = "rtree" THEN "free_rtree" ELSE "free_tile_offsets"
LoadOf(sec) == Op(LoaderName(sec[1]), sec[1], sec[2], 0)

\* load, free, load of a section, after the load of another or of none
LoadFreeLoad(before, sec) ==
  before \o << LoadOf(sec), Op(FreeName(sec[1]), sec[1], sec[2], 0),
               LoadOf(sec) >>

InitFree ==
  \E r \in ReadFragments, sec \in Freeable :
    \E before \in {<<>>} \cup {<<LoadOf(x)>> : x \in Freeable \ {sec}},
       w \in {Written(r)} :
      ReaderInit(w, r.p, sec, "none", Ample, ArraySchemas(w), TRUE, TRUE,
                 << Thread(LoadFreeLoad(before, sec), 0) >>)

FreeNext ==
  \/ LoadRTree
  \/ LoadTileOffsets
  \/ LoadTileVarOffsets
  \/ LoadTileVarSizes
  \/ LoadTileValidityOffsets
  \/ FreeRTree
  \/ FreeTileOffsets

SpecFree == InitFree /\ [][FreeNext]_vars

\* the program has run: every call has returned, none with an error
Ran ==
  /\ Len(hist.log) = Len(thr[1].todo)
  /\ \A k \in DOMAIN hist.log : hist.log[k].err = "none"

\* the positions of the first load of the section in focus and of the free
FirstLoad == Len(thr[1].todo) - 2
TheFree == Len(thr[1].todo) - 1
Reload == Len(thr[1].todo)

\* the bytes that the free of a section releases from an object: those of
\* the R-tree, or those of every offsets and sizes vector of every field
Held(f, kind) ==
  IF kind = "rtree" THEN f.rtree.buffer_size
  ELSE SumSeq([k \in 1..(4 * num_dims_and_attrs(f)) |->
                 8 * Len(f[CASE k % 4 = 0 -> "tile_offsets"
                             [] k % 4 = 1 -> "tile_var_offsets"
                             [] k % 4 = 2 -> "tile_var_sizes"
                             [] k % 4 = 3 -> "tile_validity_offsets"]
                          [(k - 1) \div 4])])

\* the section in focus holds the same after the reload as after the load
SameContent ==
  LET kind == hist.focus[1]
      idx == fm.idx_map[hist.focus[2]]
  IN  /\ SectionData(hist.log[Reload].fm, kind, idx)
           = SectionData(hist.log[FirstLoad].fm, kind, idx)
      /\ Loaded(hist.log[FirstLoad].fm, kind, idx)
      /\ ~Loaded(hist.log[TheFree].fm, kind, idx)
      /\ Loaded(hist.log[Reload].fm, kind, idx)

\* C5 as stated: after load, free, load the section holds what it held
\* after the first load, and the free releases the bytes that the load
\* took: the tracker after the free is the tracker before the load.
C5_AsStated ==
  Ran => /\ SameContent
         /\ hist.log[TheFree].mt = Before(FirstLoad).mt

\* C5: after load, free, load the section holds what it held after the
\* first load; the free releases the bytes of the R-tree (free_rtree) or
\* of every offsets and sizes vector of every field (free_tile_offsets)
\* held by then, so the tracker after the free is the tracker before the
\* load less what the object held of them before the load; and the reload
\* takes what the first load took when it read the section.
C5_LoadFreeLoad ==
  Ran =>
    LET kind == hist.focus[1]
        type == IF kind = "rtree" THEN "RTREE" ELSE "TILE_OFFSETS"
        held == Held(Before(FirstLoad).fm, kind)
        was == Before(FirstLoad).mt
        took == was.available - hist.log[FirstLoad].mt.available
    IN  /\ SameContent
        /\ hist.log[TheFree].mt
             = [was EXCEPT !.available = @ + held,
                           !.counters[type] = @ - held]
        /\ Held(hist.log[TheFree].fm, kind) = 0
        /\ ~hist.log[FirstLoad].early =>
             hist.log[TheFree].mt.available - hist.log[Reload].mt.available
               = took

\* a run in which another vector of the group was held before the load
\* and the section loaded has content
C5_Witness ==
  /\ Ran
  /\ Held(Before(FirstLoad).fm, hist.focus[1]) > 0
  /\ hist.log[FirstLoad].mt.available < Before(FirstLoad).mt.available
  /\ hist.log[TheFree].op.name = "free_tile_offsets"

(***************************************************************************)
(* The place of the footer                                                 *)
(***************************************************************************)
\* load_footer has got the offset and the size of the footer
FooterLocated ==
  /\ thr[1].done >= 1
  /\ thr[1].at \in {"read", "idle"}

\* C11: the size trailer follows the footer exactly when some dimension is
\* var-sized or the version is at least 10, and for every stored version
\* and schema the offset and size that get_footer_offset_and_size computes
\* on read are the position and the length of the footer that store wrote.
C11_FooterPlace ==
  \A k \in 1..Len(file) :
    IsFooter(file[k]) =>
      /\ IF \/ ~all_dims_fixed(hist.writer.array_schema)
            \/ hist.writer.version >= 10
         THEN /\ k = Len(file) - 1
              /\ IsTrailer(file[Len(file)])
              /\ file[Len(file)].nbytes = 8
         ELSE k = Len(file)
      /\ FooterLocated =>
           /\ fm.footer_offset = FileOffset(file, k)
           /\ fm.footer_size = file[k].nbytes

\* a version-9 fragment with fixed dimensions and tiles whose footer, with
\* no trailer behind it, was located and loaded; and a located footer with
\* its trailer is reached as well (the var-sized schema)
C11_Witness ==
  /\ FooterLocated
  /\ fm.loaded_metadata.footer
  /\ hist.writer.version = 9
  /\ all_dims_fixed(hist.writer.array_schema)
  /\ tile_num(hist.writer) >= 1
  /\ IsFooter(file[Len(file)])
  /\ fm.footer_offset > 0

(***************************************************************************)
(* The footer in a consolidated buffer.  The static FragmentMetadata::load *)
(* finds (tile, offset) of the fragment in `offsets` and hands them to     *)
(* load(); pc carries the two.                                             *)
(***************************************************************************)
\* the footer bytes of a stored file
FooterBytes(fl) ==
  Bytes(fl[CHOOSE k \in 1..Len(fl) : IsFooter(fl[k])].data)

\* the footers of two other fragments of the array
NeighbourA ==
  FooterBytes(Stored(WriterRun("sf", write_version, FALSE, FALSE, FALSE, 1,
                               1)).file)
NeighbourB ==
  FooterBytes(Stored(WriterRun("sv", MinStoreVersion, FALSE, FALSE, FALSE, 1,
                               1)).file)

\* the footers before and after the fragment's in the buffer
ConsLayouts ==
  { [before |-> <<>>, after |-> <<>>],
    [before |-> NeighbourA, after |-> NeighbourB],
    [before |-> NeighbourB \o NeighbourA, after |-> <<>>] }

\* the object the static load constructs: with a consolidated tile, load()
\* does not ask for the size of the file
OpenConsolidated(sch, uri_version) ==
  [FragmentMetadata(sch, write_version, TRUE, FALSE, FALSE) EXCEPT
     !.fragment_uri_version = uri_version]

\* load_footer with a consolidated tile: lock, flag, the offset, parse from
\* data + offset, the size from the bytes consumed
LoadFooterConsolidated ==
  \E t \in DOMAIN thr :
    IF thr[t].at = "idle"
    THEN \E o \in NextOp(t, "load_footer") :
           /\ Goto(t, Started(t, o), "lock", fm, mt, hist)
           /\ UNCHANGED <<pc, file, mtx>>
    ELSE /\ thr[t].op.name = "load_footer"
         /\ UNCHANGED <<pc, file>>
         /\ IF thr[t].at = "lock"
            THEN /\ <<"mtx", 0>> \notin DOMAIN mtx
                 /\ IF fm.loaded_metadata.footer
                    THEN /\ Return(t, thr[t], "none", Void, TRUE, TRUE, fm, mt,
                                   hist)
                         /\ UNCHANGED mtx
                    ELSE /\ Goto(t, thr[t], "read",
                                 [fm EXCEPT !.footer_size = 0,
                                            !.footer_offset = pc.offset,
                                            !.has_consolidated_footer = TRUE],
                                 mt, hist)
                         /\ mtx' = Lock(<<"mtx", 0>>, t)
            ELSE \E s \in {load_footer(fm, SubSeq(pc.tile, pc.offset + 1,
                                                  Len(pc.tile)),
                                       hist.array_schemas, mt)} :
                   /\ thr[t].at = "read"
                   /\ mtx' = Unlock(<<"mtx", 0>>)
                   /\ Return(t, thr[t], s.err,
                             IF s.ok THEN Void ELSE Raise, FALSE, FALSE,
                             s.f, mt, hist)

InitCons ==
  \E ver \in StoreVersions, c \in WriterConfigs, n \in 0..MaxTiles,
     lay \in ConsLayouts :
    /\ Writable(ver, c, n)
    /\ \E w \in {WriterRun(c.sch, ver, c.dense, c.has_ts, c.has_dm, n, 1)} :
       \E st \in {Stored(w)}, f0 \in {OpenConsolidated(w.array_schema,
                                                       w.version)} :
         /\ file = st.file
         /\ fm = f0
         /\ mt = MemoryTracker(Ample)
         /\ hist = [p |-> 1, writer |-> st.f, focus |-> <<"footer", "none">>,
                    fault |-> "none", array_schemas |-> ArraySchemas(w),
                    reads |-> <<>>, logging |-> FALSE, log |-> <<>>,
                    fm0 |-> f0, mt0 |-> MemoryTracker(Ample)]
         /\ thr = << Thread(LoadAll(w), 0) >>
         /\ mtx = <<>>
         /\ pc = [at |-> "reading",
                  tile |-> lay.before \o FooterBytes(st.file) \o lay.after,
                  offset |-> Len(lay.before)]

ConsNext ==
  \/ LoadFooterConsolidated
  \/ LoadRTree
  \/ LoadTileOffsets
  \/ LoadTileVarOffsets
  \/ LoadTileVarSizes
  \/ LoadTileValidityOffsets
  \/ LoadTileMinValues
  \/ LoadTileMaxValues
  \/ LoadTileSumValues
  \/ LoadTileNullCountValues
  \/ LoadFragmentMinMaxSumNullCount
  \/ LoadProcessedConditions

SpecCons == InitCons /\ [][ConsNext]_vars

\* load_footer of the one thread has returned
FooterCallDone ==
  /\ thr[1].done >= 1
  /\ ~(thr[1].op.name = "load_footer" /\ thr[1].at # "idle")

\* what the footer holds, and the size of the footer
FooterState(f) ==
  [version |-> f.version, array_schema |-> f.array_schema,
   array_schema_name |-> f.array_schema_name, idx_map |-> f.idx_map,
   dense |-> f.dense, non_empty_domain |-> f.non_empty_domain,
   sparse_tile_num |-> f.sparse_tile_num,
   last_tile_cell_num |-> f.last_tile_cell_num,
   has_timestamps |-> f.has_timestamps,
   has_delete_meta |-> f.has_delete_meta, file_sizes |-> f.file_sizes,
   file_var_sizes |-> f.file_var_sizes,
   file_validity_sizes |-> f.file_validity_sizes,
   gt_offsets |-> f.gt_offsets, footer_size |-> f.footer_size,
   loaded |-> f.loaded_metadata.footer]

\* the object but for where the footer was found
ButFooterPlace(f) ==
  [f EXCEPT !.footer_offset = 0, !.has_consolidated_footer = FALSE,
            !.meta_file_size = 0]

\* C12: a footer loaded from a consolidated buffer at the offset recorded
\* for the fragment leaves the state (footer fields, generic tile offsets,
\* footer size) that loading it from the fragment's own file leaves,
\* whatever footers come before or after it in the buffer; the other
\* sections are then still read lazily from the fragment's own file.
C12_ConsolidatedFooter ==
  FooterCallDone =>
    LET own == FooterParse(hist.writer, file, hist.mt0)
    IN  /\ own.ok = fm.loaded_metadata.footer
        /\ own.ok => FooterState(fm) = FooterState(own.f)
        /\ own.ok /\ thr[1].done = 1 =>
             /\ ButFooterPlace(fm) = ButFooterPlace(own.f)
             /\ hist.reads = <<>>
        /\ fm.has_consolidated_footer
        /\ fm.footer_offset = pc.offset
        /\ <<"footer", 0>> \notin DOMAIN hist.reads
        /\ <<"footer_size", 0>> \notin DOMAIN hist.reads
        /\ \A k \in 1..Len(SectionOrder(hist.writer)) :
             LET sec == SectionOrder(hist.writer)[k]
             IN  (/\ own.ok
                  /\ sec[2] \in DOMAIN fm.loaded_metadata.tile_offsets
                  /\ Loaded(fm, sec[1], sec[2]))
                 => sec \in DOMAIN hist.reads

(***************************************************************************)
(* A store that fails                                                      *)
(***************************************************************************)
\* the file holds every section, the footer and, where one is written, the
\* size of the footer
CompleteFile ==
  /\ Len(file) >= Len(store(fm)) + 1
  /\ \A k \in 1..Len(file) : file[k].type # "partial"
  /\ IsFooter(file[Len(store(fm)) + 1])
  /\ footer_has_trailer(fm) => /\ Len(file) = Len(store(fm)) + 2
                               /\ IsTrailer(file[Len(file)])

\* C13: when a step of store fails (the write of a section, the write of
\* the footer, the close of the file) the partial file is removed and the
\* error thrown nests the original one in an error that names the URI of
\* the fragment metadata; store never returns successfully with a partial
\* file.
C13_StoreFailure ==
  /\ pc.at = "store_threw" => /\ file = <<>>
                              /\ pc.nested
                              /\ pc.cause \notin {"clean_up close_file",
                                                  "clean_up remove_file"}
  /\ pc.at = "stored" => CompleteFile

(***************************************************************************)
(* Tile statistics of the writer                                           *)
(***************************************************************************)
\* reinterpretation of the stored 64-bit pattern as the sum type of a field
AsSumType(pattern, type) ==
  IF IsSignedType(type) THEN ToSigned(pattern, LongBits)
  ELSE ToUnsigned(pattern, LongBits)

\* FragmentMetadata::set_tile_index_base
set_tile_index_base(f, tile_base) == [f EXCEPT !.tile_index_base = tile_base]

\* FragmentMetadata::set_tile_min / set_tile_max: the value of the tile in
\* its slot of the buffer
set_tile_min(f, name, tid, min) ==
  [f EXCEPT !.tile_min_buffer[f.idx_map[name]][tid + f.tile_index_base + 1]
              = min]
set_tile_max(f, name, tid, max) ==
  [f EXCEPT !.tile_max_buffer[f.idx_map[name]][tid + f.tile_index_base + 1]
              = max]

\* FragmentMetadata::set_tile_min_var_size / set_tile_max_var_size
set_tile_min_var_size(f, name, tid, size) ==
  [f EXCEPT !.tile_min_buffer[f.idx_map[name]][tid + f.tile_index_base + 1]
              = size]
set_tile_max_var_size(f, name, tid, size) ==
  [f EXCEPT !.tile_max_buffer[f.idx_map[name]][tid + f.tile_index_base + 1]
              = size]

\* memcpy(&buffer[at], data, size)
Memcpy(buffer, at, data, size) ==
  [k \in 1..Len(buffer) |->
     IF k > at /\ k <= at + size THEN data[k - at] ELSE buffer[k]]

\* the size of the var-sized value of tile t, from its offset to the next
VarValueSize(offsets, var_buffer, t) ==
  IF t = Len(offsets) - 1 THEN Len(var_buffer) - offsets[t + 1]
  ELSE offsets[t + 2] - offsets[t + 1]

\* FragmentMetadata::set_tile_min_var / set_tile_max_var
set_tile_min_var(f, name, tid, min) ==
  LET idx == f.idx_map[name]
      t == tid + f.tile_index_base
      size == VarValueSize(f.tile_min_buffer[idx],
                           f.tile_min_var_buffer[idx], t)
  IN  IF size = 0 THEN f
      ELSE [f EXCEPT !.tile_min_var_buffer[idx] =
              Memcpy(@, f.tile_min_buffer[idx][t + 1], min, size)]
set_tile_max_var(f, name, tid, max) ==
  LET idx == f.idx_map[name]
      t == tid + f.tile_index_base
      size == VarValueSize(f.tile_max_buffer[idx],
                           f.tile_max_var_buffer[idx], t)
  IN  IF size = 0 THEN f
      ELSE [f EXCEPT !.tile_max_var_buffer[idx] =
              Memcpy(@, f.tile_max_buffer[idx][t + 1], max, size)]

\* a loop that stores the offset behind the value instead of the offset of
\* the value
RECURSIVE SizesToOffsetsBehind(_, _, _)
SizesToOffsetsBehind(buffer, i, offset) ==
  IF i >= Len(buffer) THEN [buffer |-> buffer, offset |-> offset]
  ELSE SizesToOffsetsBehind(
         [buffer EXCEPT ![i + 1] = ToUnsigned(offset + buffer[i + 1],
                                              LongBits)],
         i + 1, ToUnsigned(offset + buffer[i + 1], LongBits))

\* the loop of convert_tile_min_max_var_sizes_to_offsets over one buffer:
\* from tile_index_base_ on, every size becomes the offset of its value
RECURSIVE SizesToOffsets(_, _, _)
SizesToOffsets(buffer, i, offset) ==
  IF i >= Len(buffer) THEN [buffer |-> buffer, offset |-> offset]
  ELSE SizesToOffsets([buffer EXCEPT ![i + 1] = offset], i + 1,
                      ToUnsigned(offset + buffer[i + 1], LongBits))

\* FragmentMetadata::convert_tile_min_max_var_sizes_to_offsets
convert_tile_min_max_var_sizes_to_offsets(f, name) ==
  LET idx == f.idx_map[name]
      mins == SizesToOffsets(f.tile_min_buffer[idx], f.tile_index_base,
                             Len(f.tile_min_var_buffer[idx]))
      maxs == SizesToOffsets(f.tile_max_buffer[idx], f.tile_index_base,
                             Len(f.tile_max_var_buffer[idx]))
  IN  [f EXCEPT !.tile_min_buffer[idx] = mins.buffer,
                !.tile_min_var_buffer[idx] = Resize(@, mins.offset, 0),
                !.tile_max_buffer[idx] = maxs.buffer,
                !.tile_max_var_buffer[idx] = Resize(@, maxs.offset, 0)]

\* FragmentMetadata::set_tile_sum: the 8 bytes of the sum
set_tile_sum(f, name, tid, sum) ==
  [f EXCEPT !.tile_sums[f.idx_map[name]][tid + f.tile_index_base + 1]
              = ToUnsigned(sum, LongBits)]

\* FragmentMetadata::set_tile_null_count
set_tile_null_count(f, name, tid, null_count) ==
  [f EXCEPT !.tile_null_counts[f.idx_map[name]][tid + f.tile_index_base + 1]
              = null_count]

(***************************************************************************)
(* Fragment statistics from the tile statistics                            *)
(***************************************************************************)
\* the test of the loops: the tile is not entirely null
NotAllNull(f, idx, nullable, t) ==
  ~nullable \/ f.tile_null_counts[idx][t + 1] # cell_num(f, t)

\* std::accumulate(tile_null_counts_[idx].begin(), .end(), 0): the sum is
\* kept in an int, the type of the initial value
RECURSIVE accumulate_int(_, _, _)
accumulate_int(v, k, acc) ==
  IF k > Len(v) THEN acc
  ELSE accumulate_int(v, k + 1,
         ToSigned(ToUnsigned(ToUnsigned(acc, LongBits) + v[k], LongBits),
                  IntBits))

\* compute_fragment_min_max_sum<T>: the loop over the tiles
RECURSIVE min_max_loop(_, _, _, _, _)
min_max_loop(f, idx, nullable, t, acc) ==
  IF t >= tile_num(f) THEN acc
  ELSE min_max_loop(f, idx, nullable, t + 1,
         IF NotAllNull(f, idx, nullable, t)
         THEN [min |-> Min2(acc.min, f.tile_min_buffer[idx][t + 1]),
               max |-> Max2(acc.max, f.tile_max_buffer[idx][t + 1])]
         ELSE acc)

\* compute_fragment_sum<int64_t>
RECURSIVE sum_loop_int64(_, _, _, _, _)
sum_loop_int64(f, idx, nullable, t, sum_data) ==
  IF t >= tile_num(f) THEN sum_data
  ELSE IF ~NotAllNull(f, idx, nullable, t)
  THEN sum_loop_int64(f, idx, nullable, t + 1, sum_data)
  ELSE LET v == ToSigned(f.tile_sums[idx][t + 1], LongBits)
       IN  IF /\ sum_data > 0
              /\ v > 0
              /\ sum_data > ToSigned(numeric_limits_max("int64") - v, LongBits)
           THEN numeric_limits_max("int64")
           ELSE IF /\ sum_data < 0
                   /\ v < 0
                   /\ sum_data
                        < ToSigned(numeric_limits_min("int64") - v, LongBits)
           THEN numeric_limits_min("int64")
           ELSE sum_loop_int64(f, idx, nullable, t + 1,
                               ToSigned(sum_data + v, LongBits))
\* the sum without the two tests
RECURSIVE sum_loop_int64_wrapping(_, _, _, _, _)
sum_loop_int64_wrapping(f, idx, nullable, t, sum_data) ==
  IF t >= tile_num(f) THEN sum_data
  ELSE sum_loop_int64_wrapping(f, idx, nullable, t + 1,
         IF NotAllNull(f, idx, nullable, t)
         THEN ToSigned(sum_data + ToSigned(f.tile_sums[idx][t + 1], LongBits),
                       LongBits)
         ELSE sum_data)
compute_fragment_sum_int64_wrapping(f, idx, nullable) ==
  [f EXCEPT !.fragment_sums[idx] =
     ToUnsigned(sum_loop_int64_wrapping(f, idx, nullable, 0, 0), LongBits)]
compute_fragment_sum_int64(f, idx, nullable) ==
  [f EXCEPT !.fragment_sums[idx] =
     ToUnsigned(sum_loop_int64(f, idx, nullable, 0, 0), LongBits)]

\* compute_fragment_sum<uint64_t>
RECURSIVE sum_loop_uint64(_, _, _, _, _)
sum_loop_uint64(f, idx, nullable, t, sum_data) ==
  IF t >= tile_num(f) THEN sum_data
  ELSE IF ~NotAllNull(f, idx, nullable, t)
  THEN sum_loop_uint64(f, idx, nullable, t + 1, sum_data)
  ELSE LET v == f.tile_sums[idx][t + 1]
       IN  IF sum_data > ToUnsigned(numeric_limits_max("uint64") - v, LongBits)
           THEN numeric_limits_max("uint64")
           ELSE sum_loop_uint64(f, idx, nullable, t + 1,
                                ToUnsigned(sum_data + v, LongBits))
compute_fragment_sum_uint64(f, idx, nullable) ==
  [f EXCEPT !.fragment_sums[idx] = sum_loop_uint64(f, idx, nullable, 0, 0)]

\* compute_fragment_min_max_sum<T> of an integer type T: no statistics for
\* the coordinates of a dense fragment; the minimum starts at the largest
\* and the maximum at the lowest value of T
compute_fragment_min_max_sum(f, name) ==
  LET idx == f.idx_map[name]
      desc == FieldDesc(f.array_schema, name)
      type == type_of(f.array_schema, name)
      mm == min_max_loop(f, idx, desc.nullable, 0,
                         [min |-> numeric_limits_max(type),
                          max |-> numeric_limits_min(type)])
      f1 == IF desc.has_min_max
            THEN [f EXCEPT !.fragment_mins[idx] = <<mm.min>>,
                           !.fragment_maxs[idx] = <<mm.max>>]
            ELSE f
  IN  IF f.dense /\ is_dim(f.array_schema, name) THEN f
      ELSE IF ~desc.has_sum THEN f1
      ELSE IF IsSignedType(type)
      THEN compute_fragment_sum_int64(f1, idx, desc.nullable)
      ELSE compute_fragment_sum_uint64(f1, idx, desc.nullable)

\* compute_fragment_min_max_sum<char>: min and max point at slots of the
\* buffers (NoSlot is nullptr); min_values and max_values, the slot read
\* next, move on only past a tile that is not entirely null
NoSlot == 0 - 1
RECURSIVE char_loop(_, _, _, _, _, _)
char_loop(f, idx, nullable, t, values, acc) ==
  IF t >= tile_num(f) THEN acc
  ELSE IF NotAllNull(f, idx, nullable, t)
  THEN char_loop(f, idx, nullable, t + 1, values + 1,
         [min |-> IF \/ acc.min = NoSlot
                     \/ f.tile_min_buffer[idx][acc.min + 1]
                          > f.tile_min_buffer[idx][values + 1]
                  THEN values ELSE acc.min,
          max |-> IF \/ acc.max = NoSlot
                     \/ f.tile_max_buffer[idx][acc.max + 1]
                          < f.tile_max_buffer[idx][values + 1]
                  THEN values ELSE acc.max])
  ELSE char_loop(f, idx, nullable, t + 1, values, acc)
compute_fragment_min_max_sum_char(f, name) ==
  LET idx == f.idx_map[name]
      desc == FieldDesc(f.array_schema, name)
      mm == char_loop(f, idx, desc.nullable, 0, 0,
                      [min |-> NoSlot, max |-> NoSlot])
  IN  IF ~desc.has_min_max \/ mm.min = NoSlot THEN f
      ELSE [f EXCEPT
             !.fragment_mins[idx] = <<f.tile_min_buffer[idx][mm.min + 1]>>,
             !.fragment_maxs[idx] = <<f.tile_max_buffer[idx][mm.max + 1]>>]

\* strncmp(a, b, n): the sign of the first difference in the first n
\* bytes, up to a terminating null byte
RECURSIVE strncmp(_, _, _)
strncmp(a, b, n) ==
  IF n = 0 THEN 0
  ELSE IF a[1] # b[1] THEN (IF a[1] < b[1] THEN 0 - 1 ELSE 1)
  ELSE IF a[1] = 0 THEN 0
  ELSE strncmp(Tail(a), Tail(b), n - 1)

\* the var-sized value of tile t
VarValue(offsets, var_buffer, t) ==
  SubSeq(var_buffer, offsets[t + 1] + 1,
         offsets[t + 1] + VarValueSize(offsets, var_buffer, t))

\* FragmentMetadata::min_max_var: the loop; none tells that min and max are
\* still nullptr
RECURSIVE min_max_var_loop(_, _, _, _, _)
min_max_var_loop(f, idx, nullable, t, acc) ==
  IF t >= tile_num(f) THEN acc
  ELSE IF ~NotAllNull(f, idx, nullable, t)
  THEN min_max_var_loop(f, idx, nullable, t + 1, acc)
  ELSE LET min_value == VarValue(f.tile_min_buffer[idx],
                                 f.tile_min_var_buffer[idx], t)
           max_value == VarValue(f.tile_max_buffer[idx],
                                 f.tile_max_var_buffer[idx], t)
           cmin == strncmp(acc.min, min_value,
                           Min2(Len(acc.min), Len(min_value)))
           cmax == strncmp(acc.max, max_value,
                           Min2(Len(acc.max), Len(max_value)))
       IN  min_max_var_loop(f, idx, nullable, t + 1,
             IF acc.none
             THEN [none |-> FALSE, min |-> min_value, max |-> max_value]
             ELSE [none |-> FALSE,
                   min |-> IF cmin > 0 \/ (cmin = 0 /\ Len(min_value)
                                                         < Len(acc.min))
                           THEN min_value ELSE acc.min,
                   max |-> IF cmax < 0 \/ (cmax = 0 /\ Len(max_value)
                                                         > Len(acc.max))
                           THEN max_value ELSE acc.max])
min_max_var(f, name) ==
  LET idx == f.idx_map[name]
      desc == FieldDesc(f.array_schema, name)
      mm == min_max_var_loop(f, idx, desc.nullable, 0,
                             [none |-> TRUE, min |-> <<>>, max |-> <<>>])
  IN  IF ~desc.has_min_max \/ mm.none THEN f
      ELSE [f EXCEPT !.fragment_mins[idx] = mm.min,
                     !.fragment_maxs[idx] = mm.max]

\* the body of the parallel_for of compute_fragment_min_max_sum_null_count
\* for one field
compute_field(f, name) ==
  LET idx == f.idx_map[name]
      f1 == [f EXCEPT !.fragment_null_counts[idx] =
               ToUnsigned(accumulate_int(f.tile_null_counts[idx], 1, 0),
                          LongBits)]
  IN  IF FieldDesc(f.array_schema, name).var_size THEN min_max_var(f1, name)
      ELSE IF type_of(f.array_schema, name) = "char"
      THEN compute_fragment_min_max_sum_char(f1, name)
      ELSE compute_fragment_min_max_sum(f1, name)

\* FragmentMetadata::compute_fragment_min_max_sum_null_count: every field
\* of idx_map_; the fields do not share any member
RECURSIVE compute_fields(_, _)
compute_fields(f, names) ==
  IF names = {} THEN f
  ELSE LET name == CHOOSE n \in names : TRUE
       IN  compute_fields(compute_field(f, name), names \ {name})
compute_fragment_min_max_sum_null_count(f) ==
  compute_fields(f, DOMAIN f.idx_map)

(***************************************************************************)
(* A writer that sets the statistics of the tiles of one field, tile by    *)
(* tile, and then computes the statistics of the fragment.                 *)
(***************************************************************************)
StatTiles == 3

\* the setters called for every tile of the field, in this order, and the
\* two called for every tile once the sizes have become offsets
StatScript(sch, name, at) ==
  LET desc == FieldDesc(sch, name)
  IN  IF at = "var" THEN << "min_var", "max_var" >>
      ELSE << "off" >>
           \o (IF desc.var_size THEN << "var_off", "var_size" >> ELSE <<>>)
           \o (IF desc.nullable THEN << "val" >> ELSE <<>>)
           \o (IF desc.var_size THEN << "min_var_size", "max_var_size" >>
               ELSE << "min", "max" >>)
           \o (IF desc.has_sum THEN << "sum" >> ELSE <<>>)
           \o (IF desc.nullable THEN << "null_count" >> ELSE <<>>)

\* the values a setter is called with
StatValues(f, name, kind, tid) ==
  LET type == type_of(f.array_schema, name)
      idx == f.idx_map[name]
      t == tid + f.tile_index_base
  IN  CASE kind = "min" ->
             IF type = "char" THEN {97, 98}
             ELSE IF type = "int64" THEN {0 - 1, 2} ELSE {1}
        [] kind = "max" -> IF type = "char" THEN {98, 99} ELSE {2}
        [] kind = "sum" ->
             IF type = "int64"
             THEN {numeric_limits_min(type), 0 - 1,
                   numeric_limits_max(type)}
             ELSE {1, numeric_limits_max(type)}
        [] kind = "null_count" -> {0, cell_num(f, t)}
        [] kind = "min_var_size" -> {1, 2}
        [] kind = "max_var_size" -> {2}
        [] kind = "min_var" ->
             {[k \in 1..VarValueSize(f.tile_min_buffer[idx],
                                     f.tile_min_var_buffer[idx], t) |-> c] :
                c \in {97, 98}}
        [] kind = "max_var" ->
             {[k \in 1..VarValueSize(f.tile_max_buffer[idx],
                                     f.tile_max_var_buffer[idx], t) |-> c] :
                c \in {99}}
        [] OTHER -> {1}

\* the vector whose size the assert of a setter tests
AssertedVector(f, kind, idx) ==
  CASE kind = "off" -> f.tile_offsets[idx]
    [] kind = "var_off" -> f.tile_var_offsets[idx]
    [] kind = "var_size" -> f.tile_var_sizes[idx]
    [] kind = "val" -> f.tile_validity_offsets[idx]
    [] kind \in {"min", "min_var_size", "min_var"} -> f.tile_min_buffer[idx]
    [] kind \in {"max", "max_var_size", "max_var"} -> f.tile_max_buffer[idx]
    [] kind = "sum" -> f.tile_sums[idx]
    [] kind = "null_count" -> f.tile_null_counts[idx]

\* a setter whose store went past the end of its vector and did no harm:
\* the other members it assigns
PastTheEnd(f, kind, idx, v) ==
  CASE kind = "off" -> [f EXCEPT !.file_sizes[idx] = @ + v]
    [] kind = "var_off" -> [f EXCEPT !.file_var_sizes[idx] = @ + v]
    [] kind = "val" -> [f EXCEPT !.file_validity_sizes[idx] = @ + v]
    [] OTHER -> f

NoCall ==
  [op |-> "none", tid |-> 0, in_range |-> TRUE, faulted |-> FALSE,
   second |-> FALSE, before |-> <<>>, build |-> "any"]

InitStats ==
  \E name \in {"c", "i", "u", "s"}, n \in 1..StatTiles, base \in {0, 1} :
    /\ base < n
    /\ fm = set_tile_index_base(
              set_last_tile_cell_num(
                set_num_tiles(
                  init(FragmentMetadata("sm", write_version, FALSE, FALSE,
                                        FALSE), <<>>), n), 1), base)
    /\ hist = [focus |-> name, converts |-> 0, last |-> NoCall]
    /\ pc = [at |-> "tiles", tid |-> 0, k |-> 1]
    /\ file = <<>>
    /\ mt = [available |-> 0]
    /\ thr = <<>>
    /\ mtx = <<>>

\* the position after the call in turn
StatAdvance ==
  IF pc.k < Len(StatScript(fm.array_schema, hist.focus, pc.at))
  THEN [pc EXCEPT !.k = @ + 1]
  ELSE IF pc.tid + 1 < tile_num(fm) - fm.tile_index_base
  THEN [pc EXCEPT !.tid = @ + 1, !.k = 1]
  ELSE IF pc.at = "tiles"
          /\ FieldDesc(fm.array_schema, hist.focus).var_size
  THEN [at |-> "convert"]
  ELSE [at |-> "compute"]

\* a call of a setter for the tile in turn or, before the first tile is
\* done, for the tile past the last one.  The assert of the setter aborts
\* a build without NDEBUG (outcome "assert"); with NDEBUG the store past
\* the end of the vector is undefined: the process crashes or runs on.
StatSetter(kind, op(_, _, _, _)) ==
  /\ pc.at \in {"tiles", "var"}
  /\ StatScript(fm.array_schema, hist.focus, pc.at)[pc.k] = kind
  /\ \E tid \in {pc.tid} \cup (IF pc.tid = 0 /\ pc.at = "tiles"
                              THEN {tile_num(fm) - fm.tile_index_base}
                              ELSE {}),
        outcome \in {"assert", "crash", "runs on"} :
     \E v \in StatValues(fm, hist.focus, kind, pc.tid),
        in_range \in {tid + fm.tile_index_base
                        < Len(AssertedVector(fm, kind,
                                             fm.idx_map[hist.focus]))} :
       IF in_range
       THEN /\ outcome = "runs on"
            /\ fm' = op(fm, hist.focus, tid, v)
            /\ pc' = StatAdvance
            /\ hist' = [hist EXCEPT !.last = [NoCall EXCEPT !.op = kind,
                                                            !.tid = tid]]
       ELSE /\ fm' = IF outcome = "runs on"
                     THEN PastTheEnd(fm, kind, fm.idx_map[hist.focus], v)
                     ELSE fm
            /\ pc' = [at |-> "stopped"]
            /\ hist' = [hist EXCEPT !.last =
                          [op |-> kind, tid |-> tid, in_range |-> FALSE,
                           faulted |-> outcome # "runs on",
                           second |-> FALSE, before |-> fm,
                           build |-> IF outcome = "assert" THEN "debug"
                                     ELSE "NDEBUG"]]
  /\ UNCHANGED <<file, mt, thr, mtx>>

StatSetTileOffset == StatSetter("off", set_tile_offset)
StatSetTileVarOffset == StatSetter("var_off", set_tile_var_offset)
StatSetTileVarSize == StatSetter("var_size", set_tile_var_size)
StatSetTileValidityOffset == StatSetter("val", set_tile_validity_offset)
StatSetTileMin == StatSetter("min", set_tile_min)
StatSetTileMax == StatSetter("max", set_tile_max)
StatSetTileSum == StatSetter("sum", set_tile_sum)
StatSetTileNullCount == StatSetter("null_count", set_tile_null_count)
StatSetTileMinVarSize == StatSetter("min_var_size", set_tile_min_var_size)
StatSetTileMaxVarSize == StatSetter("max_var_size", set_tile_max_var_size)
StatSetTileMinVar == StatSetter("min_var", set_tile_min_var)
StatSetTileMaxVar == StatSetter("max_var", set_tile_max_var)

\* convert_tile_min_max_var_sizes_to_offsets, once the sizes of the batch
\* are set; the caller may call it once more right away
StatConvert ==
  /\ \/ pc.at = "convert"
     \/ pc.at = "var" /\ pc.tid = 0 /\ pc.k = 1 /\ hist.converts = 1
  /\ fm' = convert_tile_min_max_var_sizes_to_offsets(fm, hist.focus)
  /\ pc' = IF pc.at = "convert" THEN [at |-> "var", tid |-> 0, k |-> 1]
           ELSE [at |-> "stopped"]
  /\ hist' = [hist EXCEPT
                !.converts = @ + 1,
                !.last = [op |-> "convert", tid |-> 0, in_range |-> TRUE,
                          faulted |-> FALSE, second |-> pc.at = "var",
                          before |-> IF pc.at = "var" THEN fm ELSE <<>>,
                          build |-> "any"]]
  /\ UNCHANGED <<file, mt, thr, mtx>>

\* compute_fragment_min_max_sum_null_count
StatCompute ==
  /\ pc.at = "compute"
  /\ fm' = compute_fragment_min_max_sum_null_count(fm)
  /\ pc' = [at |-> "computed"]
  /\ hist' = [hist EXCEPT !.last = [NoCall EXCEPT !.op = "compute"]]
  /\ UNCHANGED <<file, mt, thr, mtx>>

StatsNext ==
  \/ StatSetTileOffset
  \/ StatSetTileVarOffset
  \/ StatSetTileVarSize
  \/ StatSetTileValidityOffset
  \/ StatSetTileMin
  \/ StatSetTileMax
  \/ StatSetTileSum
  \/ StatSetTileNullCount
  \/ StatSetTileMinVarSize
  \/ StatSetTileMaxVarSize
  \/ StatSetTileMinVar
  \/ StatSetTileMaxVar
  \/ StatConvert
  \/ StatCompute

SpecStats == InitStats /\ [][StatsNext]_vars

(***************************************************************************)
(* Claims on the statistics                                                *)
(***************************************************************************)
Computed == pc.at = "computed"

\* the tiles of field idx that are not entirely null
LiveTiles(f, idx, nullable) ==
  {t \in 0..(tile_num(f) - 1) : NotAllNull(f, idx, nullable, t)}

\* the fields that have a minimum and a maximum
MinMaxFields(f) ==
  {n \in DOMAIN f.idx_map :
     /\ FieldDesc(f.array_schema, n).has_min_max
     /\ ~(f.dense /\ is_dim(f.array_schema, n))}

\* the minimum and the maximum of tile t, each in the slot of the tile
TileMin(f, n, t) ==
  IF FieldDesc(f.array_schema, n).var_size
  THEN VarValue(f.tile_min_buffer[f.idx_map[n]],
                f.tile_min_var_buffer[f.idx_map[n]], t)
  ELSE << f.tile_min_buffer[f.idx_map[n]][t + 1] >>
TileMax(f, n, t) ==
  IF FieldDesc(f.array_schema, n).var_size
  THEN VarValue(f.tile_max_buffer[f.idx_map[n]],
                f.tile_max_var_buffer[f.idx_map[n]], t)
  ELSE << f.tile_max_buffer[f.idx_map[n]][t + 1] >>

\* the order of the values of a field: numbers, or strings of bytes
ValueLeq(a, b) == IF Len(a) = 1 /\ Len(b) = 1 THEN a[1] <= b[1]
                  ELSE LexLeq(a, b)

\* C14: compute_fragment_min_max_sum_null_count sets the minimum (maximum)
\* of the fragment to the least (greatest) of the minima (maxima) of the
\* tiles, over exactly the tiles that are not entirely null, the value of
\* each tile being read from the slot of that tile.
C14_FragmentMinMax ==
  Computed =>
    \A n \in MinMaxFields(fm) :
      LET idx == fm.idx_map[n]
          live == LiveTiles(fm, idx, FieldDesc(fm.array_schema, n).nullable)
      IN  live # {} =>
            /\ \E t \in live : fm.fragment_mins[idx] = TileMin(fm, n, t)
            /\ \A t \in live : ValueLeq(fm.fragment_mins[idx],
                                        TileMin(fm, n, t))
            /\ \E t \in live : fm.fragment_maxs[idx] = TileMax(fm, n, t)
            /\ \A t \in live : ValueLeq(TileMax(fm, n, t),
                                        fm.fragment_maxs[idx])

\* the sums of the tiles that are not entirely null, in the order of the
\* tiles, as values of the sum type
LiveSums(f, n) ==
  LET idx == f.idx_map[n]
  IN  [k \in 1..Cardinality(LiveTiles(f, idx,
                              FieldDesc(f.array_schema, n).nullable)) |->
         AsSumType(
           f.tile_sums[idx][
             1 + CHOOSE u \in LiveTiles(f, idx,
                                FieldDesc(f.array_schema, n).nullable) :
                   Cardinality({w \in LiveTiles(f, idx,
                                  FieldDesc(f.array_schema, n).nullable) :
                                  w < u}) = k - 1],
           type_of(f.array_schema, n))]

\* the exact sum of the first values while it stays in lo..hi; hi or lo as
\* soon as it leaves the range upwards or downwards
RECURSIVE Saturating(_, _, _, _, _)
Saturating(vals, k, sum, lo, hi) ==
  IF k > Len(vals) THEN sum
  ELSE IF sum + vals[k] > hi THEN hi
  ELSE IF sum + vals[k] < lo THEN lo
  ELSE Saturating(vals, k + 1, sum + vals[k], lo, hi)

\* the fields with a sum of type int64 or uint64
SumFields(f) ==
  {n \in DOMAIN f.idx_map :
     /\ FieldDesc(f.array_schema, n).has_sum
     /\ ~FieldDesc(f.array_schema, n).var_size
     /\ ~(f.dense /\ is_dim(f.array_schema, n))}
SumTypeOf(f, n) ==
  IF IsSignedType(type_of(f.array_schema, n)) THEN "int64" ELSE "uint64"

\* C15: for int64 and uint64 sums the sum of the fragment over the tiles
\* that are not entirely null never wraps: it is the exact sum when no
\* running prefix leaves the range of the type, else the largest value of
\* the type (the lowest for an overflow downwards).
C15_SaturatingSum ==
  Computed =>
    \A n \in SumFields(fm) :
      AsSumType(fm.fragment_sums[fm.idx_map[n]], type_of(fm.array_schema, n))
        = Saturating(LiveSums(fm, n), 1, 0,
                     numeric_limits_min(SumTypeOf(fm, n)),
                     numeric_limits_max(SumTypeOf(fm, n)))

\* an int64 field with an entirely null tile among three whose sum left
\* the range downwards and was set to the lowest value
C15_Witness ==
  /\ Computed
  /\ hist.focus = "i"
  /\ tile_num(fm) = 3
  /\ Cardinality(LiveTiles(fm, fm.idx_map["i"], TRUE)) = 2
  /\ SumSeq(LiveSums(fm, "i")) < numeric_limits_min("int64")
  /\ AsSumType(fm.fragment_sums[fm.idx_map["i"]], "int64")
       = numeric_limits_min("int64")

\* C16: the null count of the fragment is the sum of the 64-bit null
\* counts of the tiles whenever that sum fits in 64 bits.
C16_NullCount ==
  Computed =>
    \A n \in DOMAIN fm.idx_map :
      SumSeq(fm.tile_null_counts[fm.idx_map[n]]) < Pow2(LongBits) =>
        fm.fragment_null_counts[fm.idx_map[n]]
          = SumSeq(fm.tile_null_counts[fm.idx_map[n]])

\* C17: convert_tile_min_max_var_sizes_to_offsets is one-shot for a batch
\* of tiles: a second call for the same field and tile_index_base_ faults
\* and leaves the buffers as they were.
C17_ConvertOnce ==
  (hist.last.op = "convert" /\ hist.last.second) =>
    /\ hist.last.faulted
    /\ fm = hist.last.before

\* C18: set_tile_offset, set_tile_var_offset, set_tile_var_size,
\* set_tile_validity_offset, set_tile_min, set_tile_max, set_tile_sum and
\* set_tile_null_count called with tid + tile_index_base_ not below the
\* allocated length fault and write nothing.
C18_SetterBounds ==
  (/\ hist.last.op \in {"off", "var_off", "var_size", "val", "min", "max",
                        "sum", "null_count"}
   /\ ~hist.last.in_range) =>
    /\ hist.last.faulted
    /\ fm = hist.last.before

(***************************************************************************)
(* Per-tile sections whose count is not the number of tiles: a dense       *)
(* writer calls set_num_tiles(n) on a non-empty domain of m tiles, stores, *)
(* and a reader of the file calls the loader of one section                *)
(***************************************************************************)
\* the sections that hold a count and one 64-bit value per tile
CountedKinds ==
  {"tile_offsets", "tile_var_offsets", "tile_var_sizes",
   "tile_validity_offsets", "tile_sum", "tile_null_count"}

\* init() on a non-empty domain of m tiles, set_num_tiles(n), the setters
CountWriterRun(sch, ver, n, m, p) ==
  Bind(Schemas[sch].dimensions[1], LAMBDA dim :
    WriteTiles(
      set_num_tiles(
        init(FragmentMetadata(sch, ver, TRUE, FALSE, FALSE),
             << <<dim.lo, dim.lo + m * dim.extent - 1>> >>), n), 0, 1, p))

InitCount ==
  \E sch \in {"sf", "sm"}, n \in 0..MaxTiles, m \in 1..2, p \in 0..MaxStep,
     kind \in CountedKinds :
    \E w \in {CountWriterRun(sch, write_version, n, m, p)} :
      \E k \in 1..attribute_num(sch) :
        ReaderInit(w, p, <<kind, Schemas[sch].attributes[k].name>>, "none",
                   Ample, ArraySchemas(w), TRUE, TRUE,
                   << Thread(<< Op(LoaderName(kind), kind,
                                   Schemas[sch].attributes[k].name, 0) >>,
                             0) >>)

CountNext ==
  \/ LoadTileOffsets
  \/ LoadTileVarOffsets
  \/ LoadTileVarSizes
  \/ LoadTileValidityOffsets
  \/ LoadTileSumValues
  \/ LoadTileNullCountValues

SpecCount == InitCount /\ [][CountNext]_vars

\* the count at the head of the section of the call in the stored file
PersistedCount(f, o) ==
  RdVal(read_generic(file, GtOffsetOf(f, <<o.kind, IdxOf(f, o)>>)).data, 0, 8)

\* C19: a loader of a per-tile section (tile offsets, var offsets, var
\* sizes, validity offsets, sums, null counts) that reads a section whose
\* persisted count differs from tile_num() fails with an error and leaves
\* the loaded flag of the section unset.
C19_CountMismatch ==
  \A k \in 1..Len(hist.log) :
    \E e \in {hist.log[k]} :
      (/\ e.op.kind \in CountedKinds
       /\ ~e.early
       /\ PersistedCount(e.fm, e.op) # tile_num(e.fm))
        => /\ e.err # "none"
           /\ ~Loaded(e.fm, e.op.kind, IdxOf(e.fm, e.op))

(***************************************************************************)
(* Footers whose version field names no format: the file that store()      *)
(* leaves for a written fragment with the version field of its footer      *)
(* overwritten, read by load_footer; the array may or may not have a       *)
(* schema of the legacy name                                               *)
(***************************************************************************)
\* the version fields without a format on the footer path
UnsupportedVersions == {1, 2, write_version + 1, write_version + 2}

WithVersionField(fl, v) ==
  [k \in 1..Len(fl) |->
     IF IsFooter(fl[k]) THEN [fl[k] EXCEPT !.data[1][2] = v] ELSE fl[k]]

\* the version field of the footer of a file
VersionField(fl) ==
  RdVal(Bytes(fl[CHOOSE k \in 1..Len(fl) : IsFooter(fl[k])].data), 0, 4)

InitVersion ==
  \E ver \in StoreVersions, c \in WriterConfigs, n \in 0..MaxTiles,
     v \in UnsupportedVersions, legacy \in BOOLEAN :
    /\ Writable(ver, c, n)
    /\ \E w \in {WriterRun(c.sch, ver, c.dense, c.has_ts, c.has_dm, n, 1)} :
         \E st \in {Stored(w)} :
           /\ file = WithVersionField(st.file, v)
           /\ fm = OpenReader(w.array_schema, w.version, st.file)
           /\ mt = MemoryTracker(Ample)
           /\ hist = [p |-> 1, writer |-> st.f,
                      focus |-> <<"footer", "none">>, fault |-> "none",
                      array_schemas |->
                        IF legacy
                        THEN ArraySchemas(w)
                             @@ (array_schema_filename :> w.array_schema)
                        ELSE ArraySchemas(w),
                      reads |-> <<>>, logging |-> TRUE, log |-> <<>>,
                      fm0 |-> OpenReader(w.array_schema, w.version, st.file),
                      mt0 |-> MemoryTracker(Ample)]
    /\ thr = << Thread(<< Op("load_footer", "footer", "none", 0) >>, 0) >>
    /\ mtx = <<>>
    /\ pc = [at |-> "reading"]

VersionNext == LoadFooter

SpecVersion == InitVersion /\ [][VersionNext]_vars

\* C20: load_footer of a footer whose version field is not a supported
\* format version (below 3, or above the current version) fails with an
\* error and leaves the footer unloaded, rather than parsing the footer
\* with the layout of some other version.
C20_UnsupportedVersion ==
  \A k \in 1..Len(hist.log) :
    \E e \in {hist.log[k]} :
      (/\ e.op.name = "load_footer"
       /\ ~e.early
       /\ VersionField(file) \notin 3..write_version)
        => /\ e.err # "none"
           /\ ~e.fm.loaded_metadata.footer

(***************************************************************************)
(* The tiles of a dense fragment that a subarray meets.  A rectangle is a  *)
(* sequence of <<low, high>>, one per dimension; the schemas here have one *)
(* dimension, so the position of a tile in the tile grid of domain_ is its *)
(* tile coordinate.                                                        *)
(***************************************************************************)
\* utils::geometry::overlap(a, b, dim_num)
geometry_overlap(a, b) ==
  \A d \in 1..Len(a) : a[d][1] <= b[d][2] /\ a[d][2] >= b[d][1]

\* utils::geometry::overlap(a, b, dim_num, o, &overlap): the common part
geometry_overlap_rect(a, b) ==
  [d \in 1..Len(a) |-> << Max2(a[d][1], b[d][1]), Min2(a[d][2], b[d][2]) >>]

\* utils::geometry::coverage(a, b, dim_num): the cells of a over the cells
\* of b, as << numerator, denominator >>
geometry_coverage(a, b) == << a[1][2] - a[1][1] + 1, b[1][2] - b[1][1] + 1 >>

\* utils::geometry::coords_in_rect
coords_in_rect(tile_coords, rect) ==
  \A d \in 1..Len(rect) :
    rect[d][1] <= tile_coords[d] /\ tile_coords[d] <= rect[d][2]

\* Domain::get_tile_pos: the T coordinate taken as a uint64_t
get_tile_pos(T, tile_coords) == ToUnsigned(tile_coords[1], LongBits)

\* Domain::get_next_tile_coords: ++tile_coords[d] on a T
get_next_tile_coords(T, tile_coords) ==
  [tile_coords EXCEPT ![1] = AsType(@ + 1, T)]

\* Domain::get_tile_subarray: the cells of the tile at tile_coords
get_tile_subarray(sch, domain, tile_coords) ==
  [d \in 1..Len(domain) |->
     LET T == Schemas[sch].dimensions[d].type
         ex == Schemas[sch].dimensions[d].extent
     IN  << AsType(tile_coords[d] * ex + domain[d][1], T),
            AsType((tile_coords[d] + 1) * ex - 1 + domain[d][1], T) >>]

\* FragmentMetadata::get_subarray_tile_domain: the uint64_t that tile_idx
\* returns is stored in a T
get_subarray_tile_domain(f, subarray) ==
  [d \in 1..dim_num(f.array_schema) |->
     LET T == Schemas[f.array_schema].dimensions[d].type
         tile_extent == Schemas[f.array_schema].dimensions[d].extent
         domain == f.domain[d]
     IN  << AsType(tile_idx(T, Max2(subarray[d][1], domain[1]), domain[1],
                            tile_extent), T),
            AsType(tile_idx(T, Min2(subarray[d][2], domain[2]), domain[1],
                            tile_extent), T) >>]

\* the do-while loop of compute_overlapping_tile_ids.  A loop that has
\* emitted more tiles than T has values never leaves the rectangle.
RECURSIVE tile_ids_loop(_, _, _, _)
tile_ids_loop(f, subarray_tile_domain, tile_coords, tids) ==
  LET T == Schemas[f.array_schema].dimensions[1].type
      out == Append(tids, get_tile_pos(T, tile_coords))
      next == get_next_tile_coords(T, tile_coords)
  IN  IF Len(out) > Pow2(BitsOf(T)) THEN [returns |-> FALSE, tids |-> out]
      ELSE IF coords_in_rect(next, subarray_tile_domain)
      THEN tile_ids_loop(f, subarray_tile_domain, next, out)
      ELSE [returns |-> TRUE, tids |-> out]

\* FragmentMetadata::compute_overlapping_tile_ids
compute_overlapping_tile_ids(f, subarray) ==
  IF ~geometry_overlap(subarray, f.domain)
  THEN [returns |-> TRUE, tids |-> <<>>]
  ELSE LET subarray_tile_domain == get_subarray_tile_domain(f, subarray)
       IN  tile_ids_loop(f, subarray_tile_domain,
                         [d \in 1..Len(subarray_tile_domain) |->
                            subarray_tile_domain[d][1]], <<>>)

\* the do-while loop of compute_overlapping_tile_ids_cov
RECURSIVE tile_ids_cov_loop(_, _, _, _, _)
tile_ids_cov_loop(f, subarray, subarray_tile_domain, tile_coords, tids) ==
  LET T == Schemas[f.array_schema].dimensions[1].type
      tile_subarray == get_tile_subarray(f.array_schema, f.domain, tile_coords)
      tile_overlap == geometry_overlap_rect(subarray, tile_subarray)
      cov == geometry_coverage(tile_overlap, tile_subarray)
      out == Append(tids, << get_tile_pos(T, tile_coords), cov >>)
      next == get_next_tile_coords(T, tile_coords)
  IN  IF Len(out) > Pow2(BitsOf(T)) THEN [returns |-> FALSE, tids |-> out]
      ELSE IF coords_in_rect(next, subarray_tile_domain)
      THEN tile_ids_cov_loop(f, subarray, subarray_tile_domain, next, out)
      ELSE [returns |-> TRUE, tids |-> out]

\* FragmentMetadata::compute_overlapping_tile_ids_cov
compute_overlapping_tile_ids_cov(f, subarray) ==
  IF ~geometry_overlap(subarray, f.domain)
  THEN [returns |-> TRUE, tids |-> <<>>]
  ELSE LET subarray_tile_domain == get_subarray_tile_domain(f, subarray)
       IN  tile_ids_cov_loop(f, subarray, subarray_tile_domain,
                             [d \in 1..Len(subarray_tile_domain) |->
                                subarray_tile_domain[d][1]], <<>>)

\* the dense schemas and the subarrays of a query: any range of T
DenseSchemas == {"sf", "sb", "su"}
Subarrays(sch) ==
  {<< <<a, b>> >> : a, b \in ValuesOf(Schemas[sch].dimensions[1].type)}

InitOverlap ==
  \E sch \in DenseSchemas : \E ned \in DenseDomains(sch) :
    /\ ned[1][1] <= ned[1][2]
    /\ fm = init(FragmentMetadata(sch, write_version, TRUE, FALSE, FALSE),
                 ned)
    /\ hist = [op |-> "none", subarray |-> <<>>, result |-> <<>>]
    /\ pc = [at |-> "query"]
    /\ file = <<>>
    /\ mt = [available |-> 0]
    /\ thr = <<>>
    /\ mtx = <<>>

ComputeOverlappingTileIds ==
  /\ pc.at = "query"
  /\ \E subarray \in Subarrays(fm.array_schema) :
       /\ subarray[1][1] <= subarray[1][2]
       /\ hist' = [op |-> "compute_overlapping_tile_ids",
                   subarray |-> subarray,
                   result |-> compute_overlapping_tile_ids(fm, subarray)]
  /\ pc' = [at |-> "answered"]
  /\ UNCHANGED <<fm, file, mt, thr, mtx>>

ComputeOverlappingTileIdsCov ==
  /\ pc.at = "query"
  /\ \E subarray \in Subarrays(fm.array_schema) :
       /\ subarray[1][1] <= subarray[1][2]
       /\ hist' = [op |-> "compute_overlapping_tile_ids_cov",
                   subarray |-> subarray,
                   result |-> compute_overlapping_tile_ids_cov(fm, subarray)]
  /\ pc' = [at |-> "answered"]
  /\ UNCHANGED <<fm, file, mt, thr, mtx>>

OverlapNext == ComputeOverlappingTileIds \/ ComputeOverlappingTileIdsCov

SpecOverlap == InitOverlap /\ [][OverlapNext]_vars

\* the cells of tile k of the fragment and the ids of the tiles that meet
\* the subarray within domain_
TileCells(f, k) ==
  LET ex == Schemas[f.array_schema].dimensions[1].extent
  IN  (f.domain[1][1] + k * ex)..(f.domain[1][1] + (k + 1) * ex - 1)
SubarrayCells(f, subarray) ==
  (subarray[1][1]..subarray[1][2]) \cap (f.domain[1][1]..f.domain[1][2])
OverlappingTiles(f, subarray) ==
  {k \in 0..(tile_num(f) - 1) :
     TileCells(f, k) \cap SubarrayCells(f, subarray) # {}}

LegacyVersions == {3, 4, 5, 6}

\* the footer of a fragment of format 3 or 4: no entry for the dimensions
legacy_footer_v3_v4(w) ==
  LET an == attribute_num(w.array_schema)
      dims == Schemas[w.array_schema].dimensions
  IN  fm_write_version(w)
      \o write_dense(w)
      \o U(1, 0, "non_empty_domain")
      \o Concat([d \in 1..Len(dims) |->
                   write_range(dims[d], w.non_empty_domain[d],
                               "non_empty_domain")])
      \o write_sparse_tile_num(w)
      \o write_last_tile_cell_num(w)
      \o U64s(FnSeq(w.file_sizes, an + 1), "file_sizes")
      \o U64s(FnSeq(w.file_var_sizes, an), "file_var_sizes")
      \o U(8, 0, "rtree_offset")
      \o U64s(Zeros(an + 1), "tile_offsets_offsets")
      \o U64s(Zeros(an), "tile_var_offsets_offsets")
      \o U64s(Zeros(an), "tile_var_sizes_offsets")

\* the metadata file of a fragment of an older format: its sections, then
\* the footer, which has no size after it
LegacyFile(w) ==
  << write_generic(<<"rtree", 0>>, <<>>),
     vfs_write(<<"footer", 0>>,
               IF w.version < 5 THEN legacy_footer_v3_v4(w)
               ELSE write_footer([w EXCEPT
                      !.gt_offsets =
                         LET z == [i \in 0..(num_dims_and_attrs(w) - 1) |-> 0]
                         IN  [NoOffsets EXCEPT !.tile_offsets = z,
                                               !.tile_var_offsets = z,
                                               !.tile_var_sizes = z]])) >>

\* a reader of the fragment written by w and held in fl
IdxReader(w, fl) ==
  /\ file = fl
  /\ fm = OpenReader(w.array_schema, w.version, fl)
  /\ mt = MemoryTracker(Ample)
  /\ hist = [p |-> 1, writer |-> w, focus |-> <<"footer", "none">>,
             fault |-> "none", array_schemas |-> ArraySchemas(w),
             reads |-> <<>>, logging |-> TRUE, log |-> <<>>,
             fm0 |-> OpenReader(w.array_schema, w.version, fl),
             mt0 |-> MemoryTracker(Ample)]
  /\ thr = << Thread(<< Op("load_footer", "footer", "none", 0) >>, 0) >>
  /\ mtx = <<>>
  /\ pc = [at |-> "reading", sets |-> 0]

InitIdx ==
  \/ \E ver \in StoreVersions, c \in WriterConfigs, n \in 0..MaxTiles :
       /\ Writable(ver, c, n)
       /\ LET w == WriterRun(c.sch, ver, c.dense, c.has_ts, c.has_dm, n, 1)
          IN  IdxReader(w, Stored(w).file)
  \/ \E ver \in LegacyVersions, sch \in {"sf", "sm"}, dense \in BOOLEAN,
         n \in 1..MaxTiles :
       LET w == WriterRun(sch, ver, dense, FALSE, FALSE, n, 1)
       IN  IdxReader(w, LegacyFile(w))

\* set_array_schema with a schema of the array, between two calls
SetArraySchema ==
  /\ pc.at = "reading"
  /\ pc.sets = 0
  /\ \A t \in DOMAIN thr : thr[t].at = "idle"
  /\ \E sch \in {"sf", "sm"} :
       /\ fm' = set_array_schema(fm, sch)
       /\ hist' = [hist EXCEPT !.log = Append(@,
                     [op |-> Op("set_array_schema", "none", "none", 0),
                      err |-> "none", out |-> Void, early |-> FALSE,
                      flag |-> FALSE, fm |-> set_array_schema(fm, sch),
                      mt |-> mt])]
  /\ pc' = [pc EXCEPT !.sets = 1]
  /\ UNCHANGED <<file, mt, thr, mtx>>

IdxNext == LoadFooter \/ SetArraySchema

SpecIdx == InitIdx /\ [][IdxNext]_vars

\* the fields of an object in the order of their indices
FieldOrder(f) ==
  [k \in 1..attribute_num(f.array_schema) |->
     Schemas[f.array_schema].attributes[k].name]
  \o << coords >>
  \o [k \in 1..dim_num(f.array_schema) |->
        Schemas[f.array_schema].dimensions[k].name]
  \o (IF f.has_timestamps THEN << timestamps >> ELSE <<>>)
  \o (IF f.has_delete_meta
      THEN << delete_timestamps, delete_condition_index >> ELSE <<>>)

\* idx_map_ maps the fields one-to-one onto 0..N-1 in that order
WellIndexed(f) ==
  /\ DOMAIN f.idx_map = {FieldOrder(f)[k] : k \in 1..Len(FieldOrder(f))}
  /\ \A k \in 1..Len(FieldOrder(f)) : f.idx_map[FieldOrder(f)[k]] = k - 1
  /\ Cardinality(DOMAIN f.idx_map) = Len(FieldOrder(f))

\* the per-field vectors and the vectors of loaded flags that load_footer
\* resizes all have num entries
FooterSized(f, num) ==
  /\ \A v \in {f.tile_offsets, f.tile_var_offsets, f.tile_var_sizes,
               f.tile_validity_offsets, f.tile_min_buffer,
               f.tile_min_var_buffer, f.tile_max_buffer,
               f.tile_max_var_buffer, f.tile_sums, f.tile_null_counts,
               f.fragment_mins, f.fragment_maxs} :
       DOMAIN v = 0..(num - 1)
  /\ \A v \in {f.fragment_sums, f.fragment_null_counts} :
       DOMAIN v = 0..(num - 1)
  /\ \A v \in {f.loaded_metadata.tile_offsets,
               f.loaded_metadata.tile_var_offsets,
               f.loaded_metadata.tile_var_sizes,
               f.loaded_metadata.tile_validity_offsets,
               f.loaded_metadata.tile_min, f.loaded_metadata.tile_max,
               f.loaded_metadata.tile_sum,
               f.loaded_metadata.tile_null_count} :
       DOMAIN v = 0..(num - 1)

FooterLoads ==
  {k \in 1..Len(hist.log) :
     /\ hist.log[k].op.name = "load_footer"
     /\ hist.log[k].err = "none"
     /\ ~hist.log[k].early}

\* C22 as stated: after construction, after set_array_schema and after a
\* footer load idx_map_ maps the field names one-to-one onto 0..N-1 in the
\* order attributes, coords, dimensions, timestamps, delete timestamps and
\* delete condition index, and every vector sized by the footer load has
\* exactly N entries
C22_AsStated ==
  /\ WellIndexed(fm)
  /\ \A k \in FooterLoads :
       FooterSized(hist.log[k].fm,
                   Cardinality(DOMAIN hist.log[k].fm.idx_map))

\* C22 amended: the same, with the vectors sized by the footer load having
\* N entries for a footer of version 5 or more and N less the number of
\* dimensions for a footer of version 3 or 4
C22_FieldIndex ==
  /\ WellIndexed(fm)
  /\ \A k \in 1..Len(hist.log) : WellIndexed(hist.log[k].fm)
  /\ \A k \in FooterLoads :
       LET f == hist.log[k].fm
       IN  FooterSized(f, IF f.version >= 5
                          THEN Cardinality(DOMAIN f.idx_map)
                          ELSE Cardinality(DOMAIN f.idx_map)
                               - dim_num(f.array_schema))

\* a footer load that switched both flags on, and one of a version-4
\* footer
C22_Witness ==
  \E k \in FooterLoads :
    /\ hist.log[k].fm.has_timestamps
    /\ hist.log[k].fm.has_delete_meta
    /\ ~hist.fm0.has_timestamps
    /\ Cardinality(DOMAIN hist.log[k].fm.idx_map)
         = Cardinality(DOMAIN hist.fm0.idx_map) + 3

(***************************************************************************)
(* The names of the data files.  A name is the sequence of its characters; *)
(* the object is reduced to what encode_name reads: version_, idx_map_ and *)
(* the names of the schema's attributes and dimensions.                    *)
(***************************************************************************)
MaxNameLen == 3
NameChars == {"a", "!", "%", "2", "1"}
Names(len) == UNION {[1..n -> NameChars] : n \in 1..len}

coords_name == <<"_", "_", "c", "o", "o", "r", "d", "s">>
timestamps_name == <<"_", "_", "t", "s">>
delete_timestamps_name == <<"_", "_", "d", "t", "s">>
delete_condition_index_name == <<"_", "_", "d", "c", "i">>

\* the static percent_encoding map of encode_name
percent_encoding ==
  [c \in {"!", "#", "$", "%", "&", "'", "(", ")", "*", "+", ",", "/", ":",
          ";", "=", "?", "@", "[", "]", "\"", "<", ">", "\\", "|"} |->
     CASE c = "!" -> <<"%", "2", "1">>
       [] c = "#" -> <<"%", "2", "3">>
       [] c = "$" -> <<"%", "2", "4">>
       [] c = "%" -> <<"%", "2", "5">>
       [] c = "&" -> <<"%", "2", "6">>
       [] c = "'" -> <<"%", "2", "7">>
       [] c = "(" -> <<"%", "2", "8">>
       [] c = ")" -> <<"%", "2", "9">>
       [] c = "*" -> <<"%", "2", "A">>
       [] c = "+" -> <<"%", "2", "B">>
       [] c = "," -> <<"%", "2", "C">>
       [] c = "/" -> <<"%", "2", "F">>
       [] c = ":" -> <<"%", "3", "A">>
       [] c = ";" -> <<"%", "3", "B">>
       [] c = "=" -> <<"%", "3", "D">>
       [] c = "?" -> <<"%", "3", "F">>
       [] c = "@" -> <<"%", "4", "0">>
       [] c = "[" -> <<"%", "5", "B">>
       [] c = "]" -> <<"%", "5", "D">>
       [] c = "\"" -> <<"%", "2", "2">>
       [] c = "<" -> <<"%", "2", "0">>
       [] c = ">" -> <<"%", "2", "D">>
       [] c = "\\" -> <<"%", "3", "0">>
       [] c = "|" -> <<"%", "3", "C">>]

\* a loop body that lets the percent sign through
percent_encode_char_but_percent(c) ==
  IF c \notin DOMAIN percent_encoding \/ c = "%" THEN <<c>>
  ELSE percent_encoding[c]

\* the body of the loop over the characters of the name
percent_encode_char(c) ==
  IF c \notin DOMAIN percent_encoding THEN <<c>> ELSE percent_encoding[c]

\* std::to_string of an index
to_string(n) ==
  LET digit(k) == <<"0", "1", "2", "3", "4", "5", "6", "7", "8", "9">>[k + 1]
  IN  IF n < 10 THEN <<digit(n)>> ELSE <<digit(n \div 10), digit(n % 10)>>

\* build_idx_map over the names of a schema
idx_map_of(attributes, dimensions, has_ts, has_dm) ==
  LET order == attributes \o <<coords_name>> \o dimensions
               \o (IF has_ts THEN <<timestamps_name>> ELSE <<>>)
               \o (IF has_dm THEN <<delete_timestamps_name,
                                    delete_condition_index_name>>
                   ELSE <<>>)
  IN  [n \in {order[k] : k \in 1..Len(order)} |->
         (CHOOSE k \in 1..Len(order) : order[k] = n) - 1]

\* FragmentMetadata::encode_name: the file name, or the exception
encode_name(f, name) ==
  IF f.version <= 7 THEN [threw |-> FALSE, name |-> name]
  ELSE IF f.version = 8
  THEN [threw |-> FALSE,
        name |-> Concat([k \in 1..Len(name) |-> percent_encode_char(name[k])])]
  ELSE IF name \notin DOMAIN f.idx_map
  THEN [threw |-> TRUE, name |-> <<>>]
  ELSE LET idx == f.idx_map[name]
       IN  IF \E i \in 1..Len(f.attributes) : f.attributes[i] = name
           THEN [threw |-> FALSE, name |-> <<"a">> \o to_string(idx)]
           ELSE IF \E i \in 1..Len(f.dimensions) : f.dimensions[i] = name
           THEN [threw |-> FALSE,
                 name |-> <<"d">> \o to_string(idx - Len(f.attributes) - 1)]
           ELSE IF name = coords_name THEN [threw |-> FALSE, name |-> name]
           ELSE IF name = timestamps_name
           THEN [threw |-> FALSE, name |-> <<"t">>]
           ELSE IF name = delete_timestamps_name
           THEN [threw |-> FALSE, name |-> <<"d", "t">>]
           ELSE IF name = delete_condition_index_name
           THEN [threw |-> FALSE, name |-> <<"d", "c", "i">>]
           ELSE [threw |-> TRUE, name |-> <<>>]

EncodeVersions == 7..10

\* objects of the versions around the changes of the encoding, over schemas
\* of two named fields: two attributes, or an attribute and the dimension
InitEncode ==
  \E n1 \in Names(MaxNameLen), n2 \in Names(1), ver \in EncodeVersions,
     ts \in BOOLEAN, dm \in BOOLEAN, two \in BOOLEAN :
    /\ n1 # n2
    /\ LET attributes == IF two THEN <<n1, n2>> ELSE <<n1>>
           dimensions == IF two THEN << <<"d">> >> ELSE <<n2>>
       IN  fm = [version |-> ver, attributes |-> attributes,
                 dimensions |-> dimensions, has_timestamps |-> ts,
                 has_delete_meta |-> dm,
                 idx_map |-> idx_map_of(attributes, dimensions, ts, dm)]
    /\ hist = [op |-> "none", names |-> <<>>, out |-> <<>>]
    /\ pc = [at |-> "named"]
    /\ file = <<>>
    /\ mt = [available |-> 0]
    /\ thr = <<>>
    /\ mtx = <<>>

\* encode_name of every field of the object, in the order of the indices
EncodeFields ==
  /\ pc.at = "named"
  /\ LET names == [k \in 1..Cardinality(DOMAIN fm.idx_map) |->
                     CHOOSE n \in DOMAIN fm.idx_map : fm.idx_map[n] = k - 1]
     IN  hist' = [op |-> "encode_name", names |-> names,
                  out |-> [k \in 1..Len(names) |-> encode_name(fm, names[k])]]
  /\ pc' = [at |-> "encoded"]
  /\ UNCHANGED <<fm, file, mt, thr, mtx>>

\* encode_name of a name that is not a field of the object
EncodeOther ==
  /\ pc.at = "named"
  /\ \E n \in Names(1) :
       /\ n \notin DOMAIN fm.idx_map
       /\ hist' = [op |-> "encode_name", names |-> <<n>>,
                   out |-> <<encode_name(fm, n)>>]
  /\ pc' = [at |-> "encoded"]
  /\ UNCHANGED <<fm, file, mt, thr, mtx>>

EncodeNext == EncodeFields \/ EncodeOther

SpecEncode == InitEncode /\ [][EncodeNext]_vars

\* undoing the escapes of a name: a percent sign starts three characters
RECURSIVE percent_decoded(_)
percent_decoded(s) ==
  IF s = <<>> THEN <<>>
  ELSE IF /\ s[1] = "%"
          /\ Len(s) >= 3
          /\ \E c \in DOMAIN percent_encoding :
               percent_encoding[c] = SubSeq(s, 1, 3)
  THEN << CHOOSE c \in DOMAIN percent_encoding :
            percent_encoding[c] = SubSeq(s, 1, 3) >>
       \o percent_decoded(SubSeq(s, 4, Len(s)))
  ELSE <<s[1]>> \o percent_decoded(Tail(s))

\* the kind of a field of the object
EncodedAs(f, name) ==
  CASE \E i \in 1..Len(f.attributes) : f.attributes[i] = name ->
         <<"a">> \o to_string(CHOOSE i \in 0..(Len(f.attributes) - 1) :
                                f.attributes[i + 1] = name)
    [] \E i \in 1..Len(f.dimensions) : f.dimensions[i] = name ->
         <<"d">> \o to_string(CHOOSE i \in 0..(Len(f.dimensions) - 1) :
                                f.dimensions[i + 1] = name)
    [] name = timestamps_name -> <<"t">>
    [] name = delete_timestamps_name -> <<"d", "t">>
    [] name = delete_condition_index_name -> <<"d", "c", "i">>
    [] OTHER -> name

\* C23: encode_name returns the raw name for versions up to 7, the
\* percent-encoded name for version 8, and from version 9 on a and the
\* index for an attribute, d and the dimension index for a dimension and
\* t, dt, dci for the timestamps, the delete timestamps and the delete
\* condition index; for a fixed version two distinct fields of a schema
\* never get the same file name
C23_EncodeName ==
  hist.op = "encode_name" /\ Len(hist.names) > 1 =>
    /\ \A k \in 1..Len(hist.names) :
         /\ ~hist.out[k].threw
         /\ fm.version <= 7 => hist.out[k].name = hist.names[k]
         /\ fm.version = 8 =>
              /\ percent_decoded(hist.out[k].name) = hist.names[k]
              /\ \A i \in 1..Len(hist.out[k].name) :
                   hist.out[k].name[i] \notin DOMAIN percent_encoding \ {"%"}
         /\ fm.version >= 9 =>
              hist.out[k].name = EncodedAs(fm, hist.names[k])
    /\ \A j, k \in 1..Len(hist.names) :
         j # k => hist.out[j].name # hist.out[k].name

\* the names ! and %21 of two fields of a version-8 object were encoded,
\* and so were all the special fields of a later object
C23_Witness ==
  /\ hist.op = "encode_name"
  /\ \/ /\ fm.version = 8
        /\ \E j, k \in 1..Len(hist.names) :
             /\ hist.names[j] = <<"!">>
             /\ hist.names[k] = <<"%", "2", "1">>
             /\ hist.out[j].name = <<"%", "2", "1">>
     \/ /\ fm.version >= 9
        /\ Len(hist.names) = 6
        /\ hist.out[6].name = <<"d", "c", "i">>
        /\ hist.names[1] = <<"a", "1">>

(***************************************************************************)
(* The tile counts.  A writer constructs the object, calls init and then   *)
(* set_num_tiles with any counts that do not shrink; set_num_tiles takes   *)
(* the count of a dense fragment from its caller too.                      *)
(***************************************************************************)
InitTiles ==
  /\ \E sch \in {"sf", "sv", "su"}, dense \in BOOLEAN, ts \in BOOLEAN :
       /\ dense => sch \in DenseSchemas
       /\ ts => ~dense
       /\ fm = FragmentMetadata(sch, write_version, dense, ts, ts)
  /\ pc = [at |-> "new"]
  /\ hist = [counts |-> <<>>]
  /\ file = <<>>
  /\ mt = [available |-> 0]
  /\ thr = <<>>
  /\ mtx = <<>>

\* init(non_empty_domain)
TilesInit ==
  /\ pc.at = "new"
  /\ \E nd \in DenseDomains(fm.array_schema) :
       /\ nd[1][1] <= nd[1][2]
       /\ fm.dense \/ nd[1][1] = nd[1][2]
       /\ fm' = init(fm, nd)
  /\ pc' = [at |-> "alloc"]
  /\ UNCHANGED <<hist, file, mt, thr, mtx>>

\* set_num_tiles(num_tiles), num_tiles not below the size of the vectors
\* (the assert of the loop)
TilesSetNumTiles ==
  /\ pc.at = "alloc"
  /\ Len(hist.counts) <= MaxTiles
  /\ \E n \in 0..(MaxTiles + 1) :
       /\ n >= Len(fm.tile_offsets[0])
       /\ fm' = set_num_tiles(fm, n)
       /\ hist' = [hist EXCEPT !.counts = Append(@, n)]
  /\ UNCHANGED <<pc, file, mt, thr, mtx>>

TilesNext == TilesInit \/ TilesSetNumTiles

SpecTiles == InitTiles /\ [][TilesNext]_vars

\* ceil(range / extent) of the one dimension of domain_
CeilTiles(f) ==
  LET dim == Schemas[f.array_schema].dimensions[1]
      range == f.domain[1][2] - f.domain[1][1] + 1
  IN  (range + dim.extent - 1) \div dim.extent

\* C24: after a sequence of set_num_tiles calls with counts that do not
\* shrink, the offsets, var offsets, var sizes and validity offsets of
\* every field have tile_num() entries; in a sparse fragment the leaves of
\* the R-tree, sparse_tile_num_ and tile_num() equal the last count, and in
\* a dense fragment tile_num() is ceil(range / extent) of domain_
C24_TileCounts ==
  hist.counts # <<>> =>
    /\ \A i \in DOMAIN fm.tile_offsets :
         /\ Len(fm.tile_offsets[i]) = tile_num(fm)
         /\ Len(fm.tile_var_offsets[i]) = tile_num(fm)
         /\ Len(fm.tile_var_sizes[i]) = tile_num(fm)
         /\ Len(fm.tile_validity_offsets[i]) = tile_num(fm)
    /\ ~fm.dense =>
         /\ Len(fm.rtree.leaves) = hist.counts[Len(hist.counts)]
         /\ fm.sparse_tile_num = hist.counts[Len(hist.counts)]
         /\ tile_num(fm) = hist.counts[Len(hist.counts)]
    /\ fm.dense => tile_num(fm) = CeilTiles(fm)

(***************************************************************************)
(* The domains of a fragment.  A writer constructs the object and calls    *)
(* init with a non-empty domain that meets the array's domain (a           *)
(* consolidator may hand over one that reaches beyond it); the fragment is *)
(* then written and stored, and a reader loads the footer of the file.     *)
(***************************************************************************)
InitDomain ==
  /\ \E sch \in {"sf", "sb", "su", "sv"}, dense \in BOOLEAN,
        ver \in StoreVersions :
       /\ dense => sch \in DenseSchemas
       /\ fm = FragmentMetadata(sch, ver, dense, FALSE, FALSE)
  /\ pc = [at |-> "new"]
  /\ hist = [non_empty_domain |-> <<>>, err |-> "none"]
  /\ file = <<>>
  /\ mt = MemoryTracker(Ample)
  /\ thr = <<>>
  /\ mtx = <<>>

\* the non-empty domains handed to init
InitDomains(f) ==
  LET dim == Schemas[f.array_schema].dimensions[1]
  IN  IF ~f.dense THEN {<< <<dim.lo, dim.lo>> >>}
      ELSE {<< <<a, b>> >> : a, b \in ValuesOf(dim.type)}

\* init(non_empty_domain)
DomainInit ==
  /\ pc.at = "new"
  /\ \E nd \in InitDomains(fm) :
       /\ nd[1][1] <= nd[1][2]
       /\ fm.dense =>
            /\ nd[1][1] <= Schemas[fm.array_schema].dimensions[1].hi
            /\ nd[1][2] >= Schemas[fm.array_schema].dimensions[1].lo
       /\ fm' = init(fm, nd)
       /\ hist' = [hist EXCEPT !.non_empty_domain = nd]
  /\ pc' = [at |-> "inited"]
  /\ UNCHANGED <<file, mt, thr, mtx>>

\* the writer w with its tiles written, as it is stored
DomainWritten(w) ==
  Stored(IF w.dense THEN w ELSE set_last_tile_cell_num(w, 1))

\* load_footer of a reader of the file left r
DomainLoaded(fl, r) ==
  /\ file' = fl
  /\ fm' = r.f
  /\ mt' = r.mt
  /\ hist' = [hist EXCEPT !.err = r.err]

DomainStored(st) == DomainLoaded(st.file, FooterParse(st.f, st.file, mt))

\* the tiles are written and the fragment is stored; load_footer of a
\* reader of the file
DomainStoreLoad ==
  /\ pc.at = "inited"
  /\ fm.dense => tile_num(fm) <= MaxTiles + 1
  /\ \E n \in 1..MaxTiles :
       /\ fm.dense => n = tile_num(fm)
       /\ DomainStored(DomainWritten(WriteTiles(set_num_tiles(fm, n),
                                                0, 1, 1)))
  /\ pc' = [at |-> "loaded"]
  /\ UNCHANGED <<thr, mtx>>

DomainNext == DomainInit \/ DomainStoreLoad

SpecDomain == InitDomain /\ [][DomainNext]_vars

InsideArrayDomain(f) ==
  \A d \in 1..Len(f.non_empty_domain) :
    /\ Schemas[f.array_schema].dimensions[d].lo <= f.non_empty_domain[d][1]
    /\ f.non_empty_domain[d][1] <= f.non_empty_domain[d][2]
    /\ f.non_empty_domain[d][2] <= Schemas[f.array_schema].dimensions[d].hi

TileAligned(f) ==
  /\ Len(f.domain) = Len(f.non_empty_domain)
  /\ \A d \in 1..Len(f.domain) :
       LET dim == Schemas[f.array_schema].dimensions[d]
       IN  /\ f.domain[d][1] <= f.non_empty_domain[d][1]
           /\ f.non_empty_domain[d][2] <= f.domain[d][2]
           /\ (f.domain[d][1] - dim.lo) % dim.extent = 0
           /\ (f.domain[d][2] + 1 - dim.lo) % dim.extent = 0

\* C25: in a dense fragment, after init and after a footer load,
\* non_empty_domain_ lies inside the array's domain, domain_ contains it and
\* starts and ends on tile boundaries on every dimension; init of a sparse
\* fragment leaves non_empty_domain_ and domain_ empty
C25_Domains ==
  /\ pc.at \in {"inited", "loaded"} /\ fm.dense =>
       /\ hist.err = "none"
       /\ fm.non_empty_domain # <<>>
       /\ InsideArrayDomain(fm)
       /\ TileAligned(fm)
  /\ pc.at = "inited" /\ ~fm.dense =>
       /\ fm.non_empty_domain = <<>>
       /\ fm.domain = <<>>

\* a dense fragment was loaded from its file whose non-empty domain init
\* had cropped to the array's domain and expanded to the tiles
C25_Witness ==
  /\ pc.at = "loaded"
  /\ fm.dense
  /\ hist.err = "none"
  /\ hist.non_empty_domain # fm.non_empty_domain
  /\ fm.domain # fm.non_empty_domain

(***************************************************************************)
(* The tile arithmetic of a dimension.  The arguments are a type, the low  *)
(* end of a domain of that type, a positive tile extent and a value of the *)
(* domain; each call is one of the four static functions.                  *)
(***************************************************************************)
TileTypes == {"int8", "uint8", "int32", "uint32"}

InitTile ==
  /\ \E T \in TileTypes :
       \E domain_low \in ValuesOf(T), tile_extent \in 1..numeric_limits_max(T),
          v \in ValuesOf(T) :
         /\ domain_low <= v
         /\ hist = [T |-> T, domain_low |-> domain_low,
                    tile_extent |-> tile_extent, v |-> v, op |-> "none",
                    tile_num |-> 0, overflow |-> FALSE, out |-> 0]
  /\ pc = [at |-> "args"]
  /\ fm = [dense |-> TRUE]
  /\ file = <<>>
  /\ mt = [available |-> 0]
  /\ thr = <<>>
  /\ mtx = <<>>

TileCall(op, k, overflow, out) ==
  /\ pc.at = "args"
  /\ hist' = [hist EXCEPT !.op = op, !.tile_num = k,
                          !.overflow = overflow, !.out = out]
  /\ pc' = [at |-> "returned"]
  /\ UNCHANGED <<fm, file, mt, thr, mtx>>

\* tile_idx(v, domain_low, tile_extent): where v - domain_low overflows T
\* the call either goes on with the wrapped difference or is trapped
TileIdx ==
  \/ TileCall("tile_idx", 0,
              tile_idx_overflows(hist.T, hist.v, hist.domain_low),
              tile_idx(hist.T, hist.v, hist.domain_low, hist.tile_extent))
  \/ /\ tile_idx_overflows(hist.T, hist.v, hist.domain_low)
     /\ TileCall("tile_idx", 0, TRUE, 0 - 1)

RoundToTile ==
  TileCall("round_to_tile", 0, FALSE,
           round_to_tile(hist.T, hist.v, hist.domain_low, hist.tile_extent))

\* the tiles that start inside the type
TileNums ==
  0..((numeric_limits_max(hist.T) - hist.domain_low) \div hist.tile_extent)

TileCoordLow ==
  \E k \in TileNums :
    TileCall("tile_coord_low", k, FALSE,
             tile_coord_low(hist.T, k, hist.domain_low,
                            hist.tile_extent))

TileCoordHigh ==
  \E k \in TileNums :
    TileCall("tile_coord_high", k, FALSE,
             tile_coord_high(hist.T, k, hist.domain_low,
                             hist.tile_extent))

TileNext == TileIdx \/ RoundToTile \/ TileCoordLow \/ TileCoordHigh

SpecTile == InitTile /\ [][TileNext]_vars

\* floor((v - low) / e), the tile of v
TileOf == (hist.v - hist.domain_low) \div hist.tile_extent
\* low + (k + 1) * e - 1, the upper coordinate of tile k
UpperOf(k) == hist.domain_low + (k + 1) * hist.tile_extent - 1

\* C26: for every integer type, domain low, positive extent and value of
\* the domain, tile_idx(v) is floor((v - low) / e) and is computed without
\* an overflow, round_to_tile(v) is tile_coord_low(tile_idx(v)), and
\* tile_coord_low(tile_idx(v)) <= v <= tile_coord_high(tile_idx(v)) when
\* the upper coordinate of the tile is a value of the type
C26_TileArithmetic ==
  /\ hist.op = "tile_idx" => ~hist.overflow /\ hist.out = TileOf
  /\ hist.op = "round_to_tile" =>
       hist.out = tile_coord_low(hist.T, TileOf, hist.domain_low,
                                 hist.tile_extent)
  /\ hist.op = "tile_coord_low" /\ hist.tile_num = TileOf =>
       hist.out <= hist.v
  /\ hist.op = "tile_coord_high" /\ hist.tile_num = TileOf
       /\ UpperOf(TileOf) \in ValuesOf(hist.T) =>
       hist.v <= hist.out

\* C27 as stated: tile_coord_high(k, low, extent) is the maximum of the
\* type when the extent equals that maximum less low, and low +
\* (k + 1) * extent - 1 otherwise (where that is a value of the type)
C27_AsStated ==
  hist.op = "tile_coord_high" =>
    IF hist.tile_extent = numeric_limits_max(hist.T) - hist.domain_low
    THEN hist.out = numeric_limits_max(hist.T)
    ELSE UpperOf(hist.tile_num) \in ValuesOf(hist.T) =>
           hist.out = UpperOf(hist.tile_num)

\* C27 amended: tile_coord_high(k, low, extent) is low + (k + 1) * extent
\* - 1 whenever that is a value of the type, also when the extent equals
\* the maximum of the type less low; when the extent of an unsigned type is
\* the maximum of the type, the result is never above that maximum less one
\* for low = 0 and is the maximum itself for every other low
C27_TileCoordHigh ==
  hist.op = "tile_coord_high" =>
    /\ UpperOf(hist.tile_num) \in ValuesOf(hist.T) =>
         hist.out = UpperOf(hist.tile_num)
    /\ ~IsSignedType(hist.T)
         /\ hist.tile_extent = numeric_limits_max(hist.T) =>
         hist.out = IF hist.domain_low = 0
                    THEN numeric_limits_max(hist.T) - 1
                    ELSE numeric_limits_max(hist.T)

\* the upper coordinate of the first tile of a domain from 0 whose extent
\* is the maximum of the type: one below the maximum
C27_Witness ==
  /\ hist.op = "tile_coord_high"
  /\ hist.tile_num = 0
  /\ hist.domain_low = 0
  /\ hist.tile_extent = numeric_limits_max(hist.T)
  /\ hist.out = numeric_limits_max(hist.T) - 1

(***************************************************************************)
(* The checks of a range against the domain of a dimension.  A real value  *)
(* is a number or NaN; a comparison with NaN is false.                     *)
(***************************************************************************)
MaxReal == 2
NaN == [nan |-> TRUE, x |-> 0]
Real(x) == [nan |-> FALSE, x |-> x]
Reals == {NaN} \cup {Real(x) : x \in (0 - 1)..MaxReal}
isnan(a) == a.nan
RealGreater(a, b) == ~a.nan /\ ~b.nan /\ a.x > b.x

NoMessage == <<>>

\* Dimension::check_range<T> of the integral types: what it returns and
\* what it leaves in *err_msg
check_range_integral(domain, r, name) ==
  IF r[1] > r[2]
  THEN [ret |-> FALSE, err_msg |-> <<"lower bound larger", r[1], r[2]>>]
  ELSE IF r[1] < domain[1] \/ r[2] > domain[2]
  THEN [ret |-> FALSE,
        err_msg |-> <<"out of domain bounds", r[1], r[2],
                      domain[1], domain[2], name>>]
  ELSE [ret |-> TRUE, err_msg |-> NoMessage]

\* Dimension::check_range<T> of the real types
check_range_real(domain, r, name) ==
  IF isnan(r[1]) \/ isnan(r[2])
  THEN [ret |-> FALSE, err_msg |-> <<"Range contains NaN">>]
  ELSE IF RealGreater(r[1], r[2])
  THEN [ret |-> FALSE, err_msg |-> <<"lower bound larger", r[1], r[2]>>]
  ELSE IF RealGreater(domain[1], r[1]) \/ RealGreater(r[2], domain[2])
  THEN [ret |-> FALSE,
        err_msg |-> <<"out of domain bounds", r[1], r[2],
                      domain[1], domain[2], name>>]
  ELSE [ret |-> TRUE, err_msg |-> NoMessage]

RangeTypes == {"int8", "uint8", "float64"}

\* a dimension of a type with a domain
InitRange ==
  /\ \E T \in RangeTypes :
       \E lo, hi \in IF T = "float64" THEN Reals \ {NaN} ELSE ValuesOf(T) :
         /\ IF T = "float64" THEN ~RealGreater(lo, hi) ELSE lo <= hi
         /\ fm = [type |-> T, name |-> "d", domain |-> <<lo, hi>>]
  /\ hist = [op |-> "none", range |-> <<>>, ret |-> TRUE,
             err_msg |-> NoMessage]
  /\ pc = [at |-> "args"]
  /\ file = <<>>
  /\ mt = [available |-> 0]
  /\ thr = <<>>
  /\ mtx = <<>>

CheckRangeCall(values, check(_, _, _)) ==
  /\ pc.at = "args"
  /\ \E lo, hi \in values :
       hist' = [op |-> "check_range", range |-> <<lo, hi>>,
                ret |-> check(fm.domain, <<lo, hi>>, fm.name).ret,
                err_msg |-> check(fm.domain, <<lo, hi>>, fm.name).err_msg]
  /\ pc' = [at |-> "returned"]
  /\ UNCHANGED <<fm, file, mt, thr, mtx>>

CheckRangeIntegral ==
  /\ fm.type # "float64"
  /\ CheckRangeCall(ValuesOf(fm.type), check_range_integral)

CheckRangeReal ==
  /\ fm.type = "float64"
  /\ CheckRangeCall(Reals, check_range_real)

RangeNext == CheckRangeIntegral \/ CheckRangeReal

SpecRange == InitRange /\ [][RangeNext]_vars

\* the range is in error: a bound is NaN, the lower bound is above the
\* upper one, or the range is not inside the domain
BadRange ==
  IF fm.type = "float64"
  THEN \/ hist.range[1].nan
       \/ hist.range[2].nan
       \/ hist.range[1].x > hist.range[2].x
       \/ hist.range[1].x < fm.domain[1].x
       \/ hist.range[2].x > fm.domain[2].x
  ELSE \/ hist.range[1] > hist.range[2]
       \/ hist.range[1] < fm.domain[1]
       \/ hist.range[2] > fm.domain[2]

\* C28: the static check_range returns true upon error, that is exactly
\* when the lower bound of the range is above the upper one, the range
\* falls outside the domain of the dimension or, for a real type, a bound
\* is NaN, and it then stores a message in err_msg
C28_CheckRange ==
  hist.op = "check_range" =>
    /\ hist.ret <=> BadRange
    /\ BadRange => hist.err_msg # NoMessage

\* what the code does: it returns false exactly for the ranges in error,
\* with a message, and true with err_msg untouched for every other range
ReturnsFalseUponError ==
  hist.op = "check_range" =>
    /\ ~hist.ret <=> BadRange
    /\ hist.err_msg # NoMessage <=> BadRange

(***************************************************************************)
(* FragmentInfo.  The object holds the loaded_ latch, the config, the list *)
(* of the fragments and the schemas of the array.  The header gives the    *)
(* member functions that are defined inline; a function that returns a     *)
(* reference to a member hands that member to its caller, who may assign   *)
(* it.                                                                     *)
(***************************************************************************)
InfoFragments == {<<>>, <<"f1">>, <<"f1", "f2">>, <<"f3">>}
InfoSchemas == {{}, {"s1"}, {"s1", "s2"}}
InfoConfigs == {"default", "encrypted"}

\* FragmentInfo::FragmentInfo(array_uri, resources)
FragmentInfo ==
  [loaded |-> FALSE, config |-> "default", single_fragment_info_vec |-> <<>>,
   array_schemas_all |-> {}, array_schema_latest |-> "none"]

InitInfo ==
  /\ fm = FragmentInfo
  /\ hist = [op |-> "none", before |-> FragmentInfo, threw |-> FALSE]
  /\ pc = [calls |-> 0]
  /\ file = <<>>
  /\ mt = [available |-> 0]
  /\ thr = <<>>
  /\ mtx = <<>>

InfoCall(op, after, threw) ==
  /\ pc.calls < MaxOps
  /\ fm' = after
  /\ hist' = [op |-> op, before |-> fm, threw |-> threw]
  /\ pc' = [calls |-> pc.calls + 1]
  /\ UNCHANGED <<file, mt, thr, mtx>>

\* set_config(config): the object must not yet be loaded
InfoSetConfig ==
  \E c \in InfoConfigs :
    IF fm.loaded THEN InfoCall("set_config", fm, TRUE)
    ELSE InfoCall("set_config", [fm EXCEPT !.config = c], FALSE)

\* load(): the fragments and the schemas of the array, and loaded_ = true
InfoLoad ==
  /\ ~fm.loaded
  /\ \E v \in InfoFragments, s \in InfoSchemas \ {{}} :
       InfoCall("load",
                [fm EXCEPT !.loaded = TRUE, !.single_fragment_info_vec = v,
                           !.array_schemas_all = s,
                           !.array_schema_latest = CHOOSE x \in s : TRUE],
                FALSE)

\* load_and_replace(new_fragment_uri, to_replace)
InfoLoadAndReplace ==
  \E v \in InfoFragments :
    InfoCall("load_and_replace",
             [fm EXCEPT !.single_fragment_info_vec = v], FALSE)

\* get_fragment_num and the other getters of the fragments: ensure_loaded()
InfoGet ==
  InfoCall("get", fm, ~fm.loaded)

\* config() const, array_schemas_all() const, array_schema_latest() const
\* and to_vacuum() const return the member
InfoConstAccessor ==
  \E op \in {"config", "array_schemas_all", "array_schema_latest"} :
    InfoCall(op, fm, FALSE)

\* bool& loaded(): the caller holds a reference to loaded_
InfoLoadedRef ==
  \E b \in BOOLEAN : InfoCall("loaded", [fm EXCEPT !.loaded = b], FALSE)

\* std::vector<SingleFragmentInfo>& single_fragment_info_vec()
InfoSingleFragmentInfoVecRef ==
  \E v \in InfoFragments :
    InfoCall("single_fragment_info_vec",
             [fm EXCEPT !.single_fragment_info_vec = v], FALSE)

\* std::unordered_map<...>& array_schemas_all() and
\* shared_ptr<ArraySchema>& array_schema_latest()
InfoArraySchemasRef ==
  \E s \in InfoSchemas :
    InfoCall("array_schemas_all",
             [fm EXCEPT !.array_schemas_all = s,
                        !.array_schema_latest =
                           IF s = {} THEN "none" ELSE CHOOSE x \in s : TRUE],
             FALSE)

InfoNext ==
  \/ InfoSetConfig
  \/ InfoLoad
  \/ InfoLoadAndReplace
  \/ InfoGet
  \/ InfoConstAccessor
  \/ InfoLoadedRef
  \/ InfoSingleFragmentInfoVecRef
  \/ InfoArraySchemasRef

SpecInfo == InitInfo /\ [][InfoNext]_vars

\* C29: a FragmentInfo is created unloaded; set_config is accepted only
\* before load; load sets loaded_ once, and after that no call of the
\* public interface but load_and_replace changes the list of the
\* fragments, the schemas or the latch; every accessor called before load
\* fails with an error
C29_LoadLatch ==
  /\ hist.op = "none" => ~fm.loaded
  /\ hist.op = "set_config" => (hist.threw <=> hist.before.loaded)
  /\ hist.op = "load" => ~hist.before.loaded /\ fm.loaded
  /\ hist.before.loaded /\ hist.op # "load_and_replace" =>
       /\ fm.loaded
       /\ fm.single_fragment_info_vec = hist.before.single_fragment_info_vec
       /\ fm.array_schemas_all = hist.before.array_schemas_all
       /\ fm.array_schema_latest = hist.before.array_schema_latest
  /\ ~hist.before.loaded
       /\ hist.op \notin {"none", "set_config", "load", "load_and_replace"} =>
       hist.threw

(***************************************************************************)
(* The maximum buffer sizes.  A reader has loaded the footer of a stored   *)
(* fragment and, or not, the tile var sizes of its fields; it is then      *)
(* asked to add the sizes of some fields for a subarray.  buffer_sizes     *)
(* maps each requested field to its pair of sizes; the map is iterated in  *)
(* an order of its own.                                                    *)
(***************************************************************************)
\* the members of a set of numbers in ascending order
Ascending(S) ==
  [k \in 1..Cardinality(S) |->
     CHOOSE t \in S : Cardinality({u \in S : u < t}) = k - 1]

\* a lazy loader run by one thread: gate, flag, read, deserialization, flag
load_section(f, fl, m, kind, idx, Deserialize(_, _, _)) ==
  IF LoaderSkips(kind, f.version) \/ Loaded(f, kind, idx)
  THEN [f |-> f, mt |-> m, ok |-> TRUE]
  ELSE LET r == read_generic(fl, GtOffsetOf(f, <<kind, idx>>))
       IN  IF ~r.ok THEN [f |-> f, mt |-> m, ok |-> FALSE]
           ELSE LET s == LoadSectionFrom(f, m, kind, idx, r.data, Deserialize)
                IN  [f |-> s.f, mt |-> s.mt, ok |-> s.ok]

\* load_rtree(encryption_key)
load_rtree(f, fl, m) ==
  load_section(f, fl, m, "rtree", 0,
               LAMBDA s, buf, idx : load_rtree_from(s, buf))

\* load_tile_var_sizes(encryption_key, name) of the fields idx and up
RECURSIVE load_tile_var_sizes_all(_, _, _)
load_tile_var_sizes_all(o, fl, idx) ==
  IF idx >= num_dims_and_attrs(o.f) THEN o
  ELSE load_tile_var_sizes_all(
         load_section(o.f, fl, o.mt, "tile_var_sizes", idx,
                      load_tile_var_sizes_from), fl, idx + 1)

\* the body of the loop over buffer_sizes for one tile and one field
add_tile_sizes(f, sizes, name, tid) ==
  IF FieldDesc(f.array_schema, name).var_size
  THEN LET first == sizes[name][1] + cell_num(f, tid) * 8
           size == tile_var_size(f, name, tid)
       IN  IF size.raised
           THEN [threw |-> TRUE,
                 sizes |-> [sizes EXCEPT ![name] = <<first, @[2]>>]]
           ELSE [threw |-> FALSE,
                 sizes |-> [sizes EXCEPT
                              ![name] = <<first, @[2] + size.val>>]]
  ELSE [threw |-> FALSE,
        sizes |-> [sizes EXCEPT
                     ![name] = <<@[1] + cell_num(f, tid)
                                        * FieldDesc(f.array_schema,
                                                    name).cell_size,
                                 @[2]>>]]

\* the loops over the tiles and, inside, over buffer_sizes; steps holds the
\* pairs of a tile and a field in the order of the loops
RECURSIVE add_sizes(_, _, _)
add_sizes(f, sizes, steps) ==
  IF steps = <<>> THEN [threw |-> FALSE, sizes |-> sizes]
  ELSE LET r == add_tile_sizes(f, sizes, steps[1][2], steps[1][1])
       IN  IF r.threw THEN r ELSE add_sizes(f, r.sizes, Tail(steps))

LoopSteps(tids, order) ==
  Concat([k \in 1..Len(tids) |->
            [j \in 1..Len(order) |-> <<tids[k], order[j]>>]])

\* FragmentMetadata::add_max_buffer_sizes_dense<T>
add_max_buffer_sizes_dense(f, m, subarray, sizes, order) ==
  LET tids == compute_overlapping_tile_ids(f, subarray).tids
      r == add_sizes(f, sizes, LoopSteps(tids, order))
  IN  [f |-> f, mt |-> m, threw |-> r.threw, sizes |-> r.sizes]

\* FragmentMetadata::add_max_buffer_sizes_sparse after its load_rtree,
\* which left o
add_max_buffer_sizes_sparse_loaded(o, subarray, sizes, order) ==
  LET tids == Ascending(rtree_get_tile_overlap(o.f.array_schema, o.f.rtree,
                                               subarray))
      r == add_sizes(o.f, sizes, LoopSteps(tids, order))
  IN  IF ~o.ok THEN [f |-> o.f, mt |-> o.mt, threw |-> TRUE, sizes |-> sizes]
      ELSE [f |-> o.f, mt |-> o.mt, threw |-> r.threw, sizes |-> r.sizes]

\* FragmentMetadata::add_max_buffer_sizes_sparse
add_max_buffer_sizes_sparse(f, fl, m, subarray, sizes, order) ==
  add_max_buffer_sizes_sparse_loaded(load_rtree(f, fl, m), subarray, sizes,
                                     order)

\* FragmentMetadata::add_max_buffer_sizes
add_max_buffer_sizes(f, fl, m, subarray, sizes, order) ==
  IF f.dense THEN add_max_buffer_sizes_dense(f, m, subarray, sizes, order)
  ELSE add_max_buffer_sizes_sparse(f, fl, m, subarray, sizes, order)

SizesConfigs ==
  { [sch |-> "sf", dense |-> TRUE], [sch |-> "sf", dense |-> FALSE],
    [sch |-> "su", dense |-> TRUE] }

\* the reader o of the file fl before its first query
InitSizesAs(fl, o) ==
  /\ file = fl
  /\ fm = o.f
  /\ mt = o.mt
  /\ hist = [op |-> "none", subarray |-> <<>>, before |-> <<>>,
             after |-> <<>>, threw |-> FALSE]
  /\ pc = [at |-> "query"]
  /\ thr = <<>>
  /\ mtx = <<>>

\* the reader cold, with the tile var sizes of every field loaded or not
SizesReader(cold, fl, warm) ==
  IF warm
  THEN load_tile_var_sizes_all([f |-> cold.f, mt |-> cold.mt, ok |-> TRUE],
                               fl, 0)
  ELSE cold

InitSizesOf(w, fl, warm) ==
  InitSizesAs(fl, SizesReader(OpenAndLoad(w, fl, MemoryTracker(Ample)),
                              fl, warm))

InitSizes ==
  \E c \in SizesConfigs, n \in 1..MaxTiles, p \in 0..MaxStep,
     warm \in BOOLEAN :
    LET w == WriterRun(c.sch, write_version, c.dense, FALSE, FALSE, n, p)
    IN  InitSizesOf(w, Stored(w).file, warm)

\* the requested fields in the order in which the map is iterated
RequestOrders == {<<"a">>, <<"d">>, <<"a", "d">>, <<"d", "a">>}

\* the call left r
SizesAnswer(subarray, sizes, r) ==
  /\ fm' = r.f
  /\ mt' = r.mt
  /\ hist' = [op |-> "add_max_buffer_sizes", subarray |-> subarray,
              before |-> sizes, after |-> r.sizes, threw |-> r.threw]

AddMaxBufferSizes ==
  /\ pc.at = "query"
  /\ \E subarray \in Subarrays(fm.array_schema), order \in RequestOrders,
        given \in {<<0, 0>>, <<1, 2>>} :
       /\ subarray[1][1] <= subarray[1][2]
       /\ LET sizes == [n \in {order[k] : k \in 1..Len(order)} |-> given]
          IN  SizesAnswer(subarray, sizes,
                          add_max_buffer_sizes(fm, file, mt, subarray, sizes,
                                               order))
  /\ pc' = [at |-> "answered"]
  /\ UNCHANGED <<file, thr, mtx>>

SizesNext == AddMaxBufferSizes

SpecSizes == InitSizes /\ [][SizesNext]_vars

\* the candidate tiles of the subarray
CandidateTiles ==
  IF fm.dense THEN OverlappingTiles(fm, hist.subarray)
  ELSE {t \in 0..(tile_num(fm) - 1) :
          /\ fm.rtree.leaves[t + 1][1][1] <= hist.subarray[1][2]
          /\ hist.subarray[1][1] <= fm.rtree.leaves[t + 1][1][2]}

\* the cells of a tile
CellsOf(t) ==
  IF fm.dense THEN Schemas[fm.array_schema].dimensions[1].extent
  ELSE IF t = fm.sparse_tile_num - 1 THEN fm.last_tile_cell_num
  ELSE Schemas[fm.array_schema].capacity

\* what the call is to add to the sizes of a field
AddedSizes(name) ==
  LET desc == FieldDesc(fm.array_schema, name)
      tiles == Ascending(CandidateTiles)
  IN  IF desc.var_size
      THEN << SumSeq([k \in 1..Len(tiles) |-> CellsOf(tiles[k]) * 8]),
              SumSeq([k \in 1..Len(tiles) |->
                        fm.tile_var_sizes[fm.idx_map[name]][tiles[k] + 1]]) >>
      ELSE << SumSeq([k \in 1..Len(tiles) |->
                        CellsOf(tiles[k]) * desc.cell_size]), 0 >>

\* a requested var-sized field whose tile var sizes are not loaded
VarSizesMissing ==
  \E name \in DOMAIN hist.before :
    /\ FieldDesc(fm.array_schema, name).var_size
    /\ ~fm.loaded_metadata.tile_var_sizes[fm.idx_map[name]]

\* C30 as stated: add_max_buffer_sizes adds to the sizes of each requested
\* field the sum over the candidate tiles of cell_num * cell_size (fixed)
\* or of cell_num * offset size and the tile var size (var), and leaves
\* the sizes of no other field changed
C30_AsStated ==
  hist.op = "add_max_buffer_sizes" =>
    /\ ~hist.threw
    /\ DOMAIN hist.after = DOMAIN hist.before
    /\ \A name \in DOMAIN hist.before :
         /\ hist.after[name][1] = hist.before[name][1] + AddedSizes(name)[1]
         /\ hist.after[name][2] = hist.before[name][2] + AddedSizes(name)[2]

\* C30 amended: the same for a call that returns; the call throws, having
\* added a part of the sums, exactly when there is a candidate tile and the
\* tile var sizes of a requested var-sized field are not loaded
C30_MaxBufferSizes ==
  hist.op = "add_max_buffer_sizes" =>
    /\ DOMAIN hist.after = DOMAIN hist.before
    /\ hist.threw <=> (CandidateTiles # {} /\ VarSizesMissing)
    /\ ~hist.threw =>
         \A name \in DOMAIN hist.before :
           /\ hist.after[name][1]
                = hist.before[name][1] + AddedSizes(name)[1]
           /\ hist.after[name][2]
                = hist.before[name][2] + AddedSizes(name)[2]

\* the sizes of a var-sized and a fixed field were added over two tiles of
\* a sparse fragment whose last tile is not full
C30_Witness ==
  /\ hist.op = "add_max_buffer_sizes"
  /\ ~hist.threw
  /\ ~fm.dense
  /\ Cardinality(CandidateTiles) = 2
  /\ fm.last_tile_cell_num # Schemas[fm.array_schema].capacity
  /\ DOMAIN hist.before = {"a", "d"}
  /\ hist.after["a"][2] > hist.before["a"][2]

(***************************************************************************)
(* The GCS backend as its unit test drives it.  fm is the GCS object: its  *)
(* configuration, the write cache of every URI and the parts uploaded for  *)
(* it; file is the bucket, the bytes of every object by name.  The object  *)
(* of a URI is named <<uri, 0>> and its part k <<uri, k>>.  hist keeps, per URI, the bytes the  *)
(* successful writes handed over since the last flush and the bytes that  *)
(* the last flush that followed writes had been handed.                    *)
(***************************************************************************)
MaxBuffer == 2   \* the longest buffer handed to one write
MaxCalls == 5    \* the calls of one run

GcsUris == {"largefile", "smallfile"}
ObjectName(uri) == <<uri, 0>>

\* write_buffer[i] = 'a' + (i % 26), from the byte at position from
GcsBuffer(from, n) == [i \in 1..n |-> (from + i - 1) % 26]

GcsConfigs ==
  { [use_multi_part_upload |-> TRUE, max_parallel_ops |-> 1,
     multi_part_size |-> 1],
    [use_multi_part_upload |-> TRUE, max_parallel_ops |-> 2,
     multi_part_size |-> 1],
    [use_multi_part_upload |-> FALSE, max_parallel_ops |-> 1,
     multi_part_size |-> MaxBuffer] }

\* max_parallel_ops * multi_part_size; max_direct_upload_size without
\* multipart
write_cache_max_size(g) == g.max_parallel_ops * g.multi_part_size

\* GCS::init on a bucket just created
GcsInit(config) ==
  [config |-> config,
   write_cache |-> [u \in GcsUris |-> <<>>],
   part_num |-> [u \in GcsUris |-> 0]]

\* the bytes s in parts of n bytes
RECURSIVE PartsOf(_, _)
PartsOf(s, n) ==
  IF s = <<>> THEN <<>>
  ELSE IF Len(s) <= n THEN <<s>>
  ELSE <<SubSeq(s, 1, n)>> \o PartsOf(SubSeq(s, n + 1, Len(s)), n)

\* an upload that puts the parts under the name of the object itself
upload_parts_in_place(g, bucket, uri, s) ==
  [gcs |-> [g EXCEPT !.part_num[uri] = @ + 1],
   bucket |-> [o \in DOMAIN bucket \cup {ObjectName(uri)} |->
                 IF o = ObjectName(uri) THEN s ELSE bucket[o]]]

\* upload the bytes s as the parts of uri that follow its part_num parts
upload_parts(g, bucket, uri, s) ==
  LET parts == PartsOf(s, g.config.multi_part_size)
      names == {<<uri, g.part_num[uri] + k>> : k \in 1..Len(parts)}
  IN  [gcs |-> [g EXCEPT !.part_num[uri] = @ + Len(parts)],
       bucket |-> [o \in DOMAIN bucket \cup names |->
                     IF o \in names THEN parts[o[2] - g.part_num[uri]]
                     ELSE bucket[o]]]

\* GCS::write with all == the write cache followed by the buffer
gcs_write_all(g, bucket, uri, all) ==
  LET max == write_cache_max_size(g.config)
      full == (Len(all) \div max) * max
  IN  IF Len(all) <= max
      THEN [ok |-> TRUE, gcs |-> [g EXCEPT !.write_cache[uri] = all],
            bucket |-> bucket]
      ELSE IF ~g.config.use_multi_part_upload
      THEN [ok |-> FALSE, gcs |-> g, bucket |-> bucket]
      ELSE LET up == upload_parts(g, bucket, uri, SubSeq(all, 1, full))
           IN  [ok |-> TRUE,
                gcs |-> [up.gcs EXCEPT
                           !.write_cache[uri] =
                              SubSeq(all, full + 1, Len(all))],
                bucket |-> up.bucket]

\* GCS::write(uri, buffer, length)
gcs_write(g, bucket, uri, buffer) ==
  gcs_write_all(g, bucket, uri, g.write_cache[uri] \o buffer)

\* the composition of the parts of uri into the object and their removal
gcs_compose(g, bucket, uri) ==
  LET names == {<<uri, k>> : k \in 1..g.part_num[uri]}
      bytes == Concat([k \in 1..g.part_num[uri] |->
                         IF <<uri, k>> \in DOMAIN bucket
                         THEN bucket[<<uri, k>>] ELSE <<>>])
  IN  [gcs |-> [g EXCEPT !.part_num[uri] = 0, !.write_cache[uri] = <<>>],
       bucket |-> [o \in (DOMAIN bucket \ names) \cup {ObjectName(uri)} |->
                     IF o = ObjectName(uri) THEN bytes ELSE bucket[o]]]

\* GCS::flush_object after the upload of the write cache as the last part
gcs_flush_parts(up, uri) == gcs_compose(up.gcs, up.bucket, uri)

\* GCS::flush_object(uri)
gcs_flush_object(g, bucket, uri) ==
  IF g.write_cache[uri] = <<>> /\ g.part_num[uri] = 0
  THEN [gcs |-> g, bucket |-> bucket]
  ELSE IF ~g.config.use_multi_part_upload
  THEN [gcs |-> [g EXCEPT !.write_cache[uri] = <<>>],
        bucket |-> [o \in DOMAIN bucket \cup {ObjectName(uri)} |->
                      IF o = ObjectName(uri) THEN g.write_cache[uri]
                      ELSE bucket[o]]]
  ELSE gcs_flush_parts(upload_parts(g, bucket, uri, g.write_cache[uri]), uri)

\* GCS::is_object(uri, &is_object)
gcs_is_object(bucket, uri) == ObjectName(uri) \in DOMAIN bucket

\* GCS::object_size(uri, &nbytes)
gcs_object_size(bucket, uri) == Len(bucket[ObjectName(uri)])

\* GCS::read(uri, offset, buffer, length, 0, &bytes_read)
gcs_read(bucket, uri, offset, length) ==
  IF ObjectName(uri) \in DOMAIN bucket
     /\ offset + length <= Len(bucket[ObjectName(uri)])
  THEN [ok |-> TRUE, bytes |-> SubSeq(bucket[ObjectName(uri)], offset + 1,
                                      offset + length)]
  ELSE [ok |-> FALSE, bytes |-> <<>>]

InitGcs ==
  /\ \E config \in GcsConfigs : fm = GcsInit(config)
  /\ file = [o \in {} |-> <<>>]
  /\ hist = [op |-> "init", uri |-> "", ok |-> TRUE, calls |-> 0,
             written |-> [u \in GcsUris |-> <<>>],
             flushed |-> [u \in GcsUris |-> <<>>],
             flushes |-> [u \in GcsUris |-> 0]]
  /\ pc = [at |-> "test"]
  /\ mt = [available |-> 0]
  /\ thr = <<>>
  /\ mtx = <<>>

\* the write left r
GcsWritten(uri, buffer, r) ==
  /\ fm' = r.gcs
  /\ file' = r.bucket
  /\ hist' = [hist EXCEPT
                !.op = "write", !.uri = uri, !.ok = r.ok,
                !.calls = @ + 1,
                !.written[uri] = IF r.ok THEN @ \o buffer ELSE @]

\* gcs_.write(URI(uri), write_buffer, buffer_size)
GcsWrite ==
  /\ hist.calls < MaxCalls
  /\ \E uri \in GcsUris, n \in 1..MaxBuffer :
       GcsWritten(uri, GcsBuffer(Len(hist.written[uri]), n),
                  gcs_write(fm, file, uri,
                            GcsBuffer(Len(hist.written[uri]), n)))
  /\ UNCHANGED <<pc, mt, thr, mtx>>

\* the flush left r
GcsFlushed(uri, r) ==
  /\ fm' = r.gcs
  /\ file' = r.bucket
  /\ hist' = [hist EXCEPT
                !.op = "flush_object", !.uri = uri, !.ok = TRUE,
                !.calls = @ + 1,
                !.flushed[uri] = IF hist.written[uri] # <<>>
                                 THEN hist.written[uri] ELSE @,
                !.written[uri] = <<>>,
                !.flushes[uri] = IF hist.written[uri] # <<>> THEN @ + 1
                                 ELSE @]

\* gcs_.flush_object(URI(uri))
GcsFlushObject ==
  /\ hist.calls < MaxCalls
  /\ \E uri \in GcsUris : GcsFlushed(uri, gcs_flush_object(fm, file, uri))
  /\ UNCHANGED <<pc, mt, thr, mtx>>

GcsNext == GcsWrite \/ GcsFlushObject

SpecGcs == InitGcs /\ [][GcsNext]_vars

\* a read at every offset of the object of uri returns the bytes s from
\* that offset on
ReadsBack(uri, s) ==
  \A o \in 0..Len(s) :
    \A n \in 0..(Len(s) - o) :
      /\ gcs_read(file, uri, o, n).ok
      /\ gcs_read(file, uri, o, n).bytes = SubSeq(s, o + 1, o + n)

BatchField == "s"

InitBatch ==
  /\ \E n \in 1..StatTiles :
       fm = set_last_tile_cell_num(
              set_num_tiles(
                init(FragmentMetadata("sm", write_version, FALSE, FALSE,
                                      FALSE), <<>>), n), 1)
  /\ hist = [op |-> "none", before |-> <<>>, batches |-> 1]
  /\ pc = [at |-> "min_var_size", tid |-> 0]
  /\ file = <<>>
  /\ mt = [available |-> 0]
  /\ thr = <<>>
  /\ mtx = <<>>

\* the tiles of the batch
BatchTiles == tile_num(fm) - fm.tile_index_base

\* a setter of the batch was called for the tile in turn
BatchCall(op, f, after) ==
  /\ fm' = f
  /\ hist' = [hist EXCEPT !.op = op, !.before = <<>>]
  /\ pc' = IF op \in {"min_var_size", "min_var"}
           THEN [pc EXCEPT !.at = after]
           ELSE IF pc.tid + 1 < BatchTiles
           THEN [at |-> IF op = "max_var_size" THEN "min_var_size"
                        ELSE "min_var", tid |-> pc.tid + 1]
           ELSE [at |-> after, tid |-> 0]
  /\ UNCHANGED <<file, mt, thr, mtx>>

BatchSetTileMinVarSize ==
  /\ pc.at = "min_var_size"
  /\ \E size \in {0, 1, 2} :
       BatchCall("min_var_size",
                 set_tile_min_var_size(fm, BatchField, pc.tid, size),
                 "max_var_size")

BatchSetTileMaxVarSize ==
  /\ pc.at = "max_var_size"
  /\ \E size \in {2, 3} :
       BatchCall("max_var_size",
                 set_tile_max_var_size(fm, BatchField, pc.tid, size),
                 "convert")

\* convert_tile_min_max_var_sizes_to_offsets(name), once for the batch
BatchConvert ==
  /\ pc.at = "convert"
  /\ fm' = convert_tile_min_max_var_sizes_to_offsets(fm, BatchField)
  /\ hist' = [hist EXCEPT !.op = "convert", !.before = fm]
  /\ pc' = [at |-> "min_var", tid |-> 0]
  /\ UNCHANGED <<file, mt, thr, mtx>>

BatchSetTileMinVar ==
  /\ pc.at = "min_var"
  /\ BatchCall("min_var",
               set_tile_min_var(fm, BatchField, pc.tid, [k \in 1..3 |-> 98]),
               "max_var")

BatchSetTileMaxVar ==
  /\ pc.at = "max_var"
  /\ BatchCall("max_var",
               set_tile_max_var(fm, BatchField, pc.tid, [k \in 1..3 |-> 99]),
               "batch")

\* the next batch: set_tile_index_base and set_num_tiles
BatchBegin ==
  /\ pc.at = "batch"
  /\ \E n \in 1..(StatTiles - tile_num(fm)) :
       fm' = set_num_tiles(set_tile_index_base(fm, tile_num(fm)),
                           tile_num(fm) + n)
  /\ hist' = [hist EXCEPT !.op = "batch", !.before = <<>>,
                          !.batches = @ + 1]
  /\ pc' = [at |-> "min_var_size", tid |-> 0]
  /\ UNCHANGED <<file, mt, thr, mtx>>

BatchNext ==
  \/ BatchSetTileMinVarSize
  \/ BatchSetTileMaxVarSize
  \/ BatchConvert
  \/ BatchSetTileMinVar
  \/ BatchSetTileMaxVar
  \/ BatchBegin

SpecBatch == InitBatch /\ [][BatchNext]_vars

\* the sum of the sizes that the tiles from to up to but without t had in
\* the buffer sizes
SizesBelow(sizes, from, t) ==
  SumSeq([k \in 1..(t - from) |-> sizes[from + k]])

\* the conversion of one buffer of sizes and its var buffer, as it is to be
Converted(sizes, var, base, offsets, var_after) ==
  /\ Len(offsets) = Len(sizes)
  /\ \A t \in 0..(Len(sizes) - 1) :
       offsets[t + 1] = IF t < base THEN sizes[t + 1]
                        ELSE Len(var) + SizesBelow(sizes, base, t)
  /\ Len(var_after) = Len(var) + SizesBelow(sizes, base, Len(sizes))
  /\ SubSeq(var_after, 1, Len(var)) = var

\* C32: once the sizes of the tiles from tile_index_base_ on are stored,
\* one call of convert_tile_min_max_var_sizes_to_offsets replaces entry t
\* (t >= tile_index_base_) by the previous length of the var buffer plus
\* the sizes of the tiles tile_index_base_..t-1, resizes the var buffer to
\* the previous length plus all those sizes and leaves the entries below
\* tile_index_base_ and the bytes of the var buffer as they were
C32_SizesToOffsets ==
  hist.op = "convert" =>
    /\ Converted(hist.before.tile_min_buffer[fm.idx_map[BatchField]],
                 hist.before.tile_min_var_buffer[fm.idx_map[BatchField]],
                 fm.tile_index_base,
                 fm.tile_min_buffer[fm.idx_map[BatchField]],
                 fm.tile_min_var_buffer[fm.idx_map[BatchField]])
    /\ Converted(hist.before.tile_max_buffer[fm.idx_map[BatchField]],
                 hist.before.tile_max_var_buffer[fm.idx_map[BatchField]],
                 fm.tile_index_base,
                 fm.tile_max_buffer[fm.idx_map[BatchField]],
                 fm.tile_max_var_buffer[fm.idx_map[BatchField]])

\* the sizes of a second batch of two tiles were converted behind the
\* offsets and the values of the first batch
C32_Witness ==
  /\ hist.op = "convert"
  /\ fm.tile_index_base = 1
  /\ tile_num(fm) = 3
  /\ hist.before.tile_min_var_buffer[fm.idx_map[BatchField]] = <<98, 98>>
  /\ hist.before.tile_min_buffer[fm.idx_map[BatchField]] = <<0, 1, 2>>
  /\ fm.tile_min_buffer[fm.idx_map[BatchField]] = <<0, 2, 3>>
  /\ Len(fm.tile_min_var_buffer[fm.idx_map[BatchField]]) = 5

(***************************************************************************)
(* The writers of a sparse fragment.  Threads call set_mbr for tiles of    *)
(* their own; a call sets the leaf of the R-tree, then takes mtx_ and      *)
(* expands the non-empty domain.  hist keeps the MBRs of the calls that    *)
(* have returned.                                                          *)
(***************************************************************************)
\* a <= b on the coordinates of the dimension d
CoordLeq(sch, d, a, b) ==
  IF Schemas[sch].dimensions[d].var_size THEN LexLeq(a, b) ELSE a <= b

\* the MBRs handed to set_mbr
WriterMbrs(sch) ==
  IF Schemas[sch].dimensions[1].var_size
  THEN {<< <<a, b>> >> : a, b \in {<<97>>, <<97, 98>>, <<98>>}}
  ELSE {<< <<a, a + 1>> >> :
          a \in Schemas[sch].dimensions[1].lo
                  ..(Schemas[sch].dimensions[1].hi - 1)}

WriterThread == [at |-> "idle", tile |-> 0, mbr |-> <<>>]

InitMbr ==
  /\ \E sch \in {"sf", "sv"} :
       fm = set_num_tiles(init(FragmentMetadata(sch, write_version, FALSE,
                                                FALSE, FALSE), <<>>),
                          MaxTiles)
  /\ thr = [t \in 1..MaxThreads |-> WriterThread]
  /\ mtx = <<>>
  /\ hist = [passed |-> {}, concurrent |-> FALSE]
  /\ pc = [at |-> "writing", calls |-> 0]
  /\ file = <<>>
  /\ mt = [available |-> 0]

\* set_mbr(tile, mbr) up to the lock of expand_non_empty_domain:
\* rtree_.set_leaf(tile + tile_index_base_, mbr)
MbrSetLeaf ==
  \E t \in DOMAIN thr :
    /\ thr[t].at = "idle"
    /\ pc.calls <= MaxOps
    /\ \E tile \in 0..(tile_num(fm) - 1), r \in WriterMbrs(fm.array_schema) :
         /\ CoordLeq(fm.array_schema, 1, r[1][1], r[1][2])
         /\ \A u \in DOMAIN thr : thr[u].at # "idle" => thr[u].tile # tile
         /\ fm' = [fm EXCEPT
                     !.rtree = rtree_set_leaf(@, tile + fm.tile_index_base,
                                              r)]
         /\ thr' = [thr EXCEPT ![t] = [at |-> "lock", tile |-> tile,
                                        mbr |-> r]]
    /\ pc' = [pc EXCEPT !.calls = @ + 1]
    /\ hist' = [hist EXCEPT
                  !.concurrent = @ \/ \E u \in DOMAIN thr :
                                        thr[u].at # "idle"]
    /\ UNCHANGED <<file, mt, mtx>>

\* std::lock_guard<std::mutex> lock(mtx_)
MbrLock ==
  \E t \in DOMAIN thr :
    /\ thr[t].at = "lock"
    /\ <<"mtx", 0>> \notin DOMAIN mtx
    /\ mtx' = Lock(<<"mtx", 0>>, t)
    /\ thr' = [thr EXCEPT ![t].at = "expand"]
    /\ UNCHANGED <<fm, pc, hist, file, mt>>

\* expand_non_empty_domain(mbr) under the lock, and the return of set_mbr
MbrExpand ==
  \E t \in DOMAIN thr :
    /\ thr[t].at = "expand"
    /\ fm' = expand_non_empty_domain(fm, thr[t].mbr)
    /\ mtx' = Unlock(<<"mtx", 0>>)
    /\ thr' = [thr EXCEPT ![t] = WriterThread]
    /\ hist' = [hist EXCEPT !.passed = @ \cup {thr[t].mbr}]
    /\ UNCHANGED <<pc, file, mt>>

MbrNext == MbrSetLeaf \/ MbrLock \/ MbrExpand

SpecMbr == InitMbr /\ [][MbrNext]_vars

\* the bounding range of a set of MBRs on the dimension d
BoundingRange(sch, d, S) ==
  << CHOOSE a \in {m[d][1] : m \in S} :
       \A m \in S : CoordLeq(sch, d, a, m[d][1]),
     CHOOSE b \in {m[d][2] : m \in S} :
       \A m \in S : CoordLeq(sch, d, m[d][2], b) >>

\* the leaves of the tiles that no call in flight is setting
SettledLeaves ==
  {fm.rtree.leaves[k] :
     k \in {k \in 1..Len(fm.rtree.leaves) :
              /\ fm.rtree.leaves[k] # <<>>
              /\ \A t \in DOMAIN thr :
                   thr[t].at # "idle" =>
                     thr[t].tile + fm.tile_index_base # k - 1}}

\* C33: on a sparse fragment the non-empty domain is, after the set_mbr
\* calls made so far by the threads, each for tiles of its own, the
\* bounding range per dimension of all the MBRs passed, and the range of
\* every leaf of the R-tree lies within it
C33_NonEmptyDomain ==
  /\ hist.passed = {} => fm.non_empty_domain = <<>>
  /\ hist.passed # {} =>
       /\ Len(fm.non_empty_domain) = dim_num(fm.array_schema)
       /\ \A d \in 1..dim_num(fm.array_schema) :
            fm.non_empty_domain[d]
              = BoundingRange(fm.array_schema, d, hist.passed)
  /\ \A leaf \in SettledLeaves :
       \A d \in 1..dim_num(fm.array_schema) :
         /\ CoordLeq(fm.array_schema, d, fm.non_empty_domain[d][1],
                     leaf[d][1])
         /\ CoordLeq(fm.array_schema, d, leaf[d][2],
                     fm.non_empty_domain[d][2])

\* two threads have set disjoint MBRs of two tiles, the second while the
\* first was in its call
C33_Witness ==
  /\ \A t \in DOMAIN thr : thr[t].at = "idle"
  /\ hist.concurrent
  /\ Cardinality(hist.passed) >= 2
  /\ \A d \in 1..dim_num(fm.array_schema) :
       \A m \in hist.passed : fm.non_empty_domain[d] # m[d]
  /\ \A k \in 1..Len(fm.rtree.leaves) : fm.rtree.leaves[k] # <<>>

(***************************************************************************)
(* Fragments of older versions.  store() refuses the versions before 7;    *)
(* the file of such a fragment holds the sections whose offsets            *)
(* load_generic_tile_offsets_v5_v6 reads, and the footer that write_footer *)
(* gives for the version.                                                  *)
(***************************************************************************)
sections_v5_v6(w) ==
  << <<"rtree", 0>> >>
  \o PerField(w, "tile_offsets") \o PerField(w, "tile_var_offsets")
  \o PerField(w, "tile_var_sizes")

RECURSIVE StoreSectionsFrom(_, _, _, _)
StoreSectionsFrom(st, secs, lo, hi) ==
  IF lo > hi THEN st
  ELSE CHOOSE out \in
         { IF lo = hi
           THEN LET r == store_section(s.f, secs[lo], s.offset)
                IN  [f |-> r.f, file |-> Append(s.file, r.blob),
                     offset |-> advance_offset(s.offset, r.blob.nbytes)]
           ELSE StoreSectionsFrom(
                  StoreSectionsFrom(s, secs, lo, (lo + hi) \div 2), secs,
                  (lo + hi) \div 2 + 1, hi) : s \in {st} } : TRUE
StoredBefore7(w) ==
  Bind(StoreSectionsFrom([f |-> w, file |-> <<>>, offset |-> 0],
                         sections_v5_v6(w), 1, Len(sections_v5_v6(w))),
       LAMBDA st :
         [f |-> st.f,
          file |-> st.file \o write_footer_to_file(st.f, write_footer(st.f))])

\* the versions on either side of every gate of a loader
GateVersions == {6, 7, 10, 11, 12, 15, 16}

\* the sections that came after version 3
Gated ==
  {"tile_validity_offsets", "tile_min", "tile_max", "tile_sum",
   "tile_null_count", "fragment_min_max_sum_null_count",
   "processed_conditions"}

\* a reader of the stored fragment st of the writer w, opened by load(),
\* with one caller of up to MaxOps calls on the section in focus
GateReader(st, w, focus) ==
  \E o \in {OpenAndLoad(w, st.file, MemoryTracker(Ample))} :
    /\ file = st.file
    /\ fm = o.f
    /\ mt = o.mt
    /\ hist = [p |-> 1, writer |-> st.f, focus |-> focus, fault |-> "none",
               array_schemas |-> ArraySchemas(w), reads |-> <<>>,
               logging |-> TRUE, log |-> <<>>, fm0 |-> o.f, mt0 |-> o.mt]
    /\ thr = << Thread(<<>>, MaxOps) >>
    /\ mtx = <<>>
    /\ pc = [at |-> "reading"]

InitGate ==
  \E ver \in GateVersions, sch \in {"sf", "sv"}, focus \in Gated \X {"a", "d"} :
    \E w \in {WriterRun(sch, ver, FALSE, FALSE, FALSE, MaxTiles, 1)} :
      GateReader(IF ver < MinStoreVersion THEN StoredBefore7(w) ELSE Stored(w),
                 w, focus)

GateNext ==
  \/ LoadTileValidityOffsets
  \/ LoadTileMinValues
  \/ LoadTileMaxValues
  \/ LoadTileSumValues
  \/ LoadTileNullCountValues
  \/ LoadFragmentMinMaxSumNullCount
  \/ LoadProcessedConditions
  \/ FileValidityOffsetCall
  \/ PersistedTileValiditySize
  \/ GetTileMinAs
  \/ GetTileMinAsStringView
  \/ GetTileMaxAs
  \/ GetTileMaxAsStringView
  \/ GetTileSum
  \/ GetTileNullCount
  \/ GetMin
  \/ GetMax
  \/ GetSum
  \/ GetNullCount
  \/ GetProcessedConditions

SpecGate == InitGate /\ [][GateNext]_vars

\* the first version that has the section
FirstVersionOf(kind) ==
  CASE kind = "tile_validity_offsets" -> 7
    [] kind \in {"tile_min", "tile_max", "tile_sum", "tile_null_count"} -> 11
    [] kind = "fragment_min_max_sum_null_count" -> 12
    [] kind = "processed_conditions" -> 16

\* the k-th call was a load of a section that the version of the fragment
\* predates
SkippedLoad(k) ==
  /\ hist.log[k].op.kind \in Gated
  /\ hist.log[k].op.name = LoaderName(hist.log[k].op.kind)
  /\ Before(k).fm.version < FirstVersionOf(hist.log[k].op.kind)

\* C34: the load of a section that the version of the fragment predates
\* (validity offsets up to version 6, tile min/max/sum/null-count before
\* 11, fragment min/max/sum/null-count up to 11, processed conditions up
\* to 15) returns without an error and without a read, leaves the object
\* as it was with the flag of the section false, and every later call of
\* an accessor of the section raises.
C34_VersionGates ==
  \A k \in DOMAIN hist.log :
    SkippedLoad(k) =>
      LET e == hist.log[k]
      IN  /\ e.err = "none"
          /\ hist.reads = <<>>
          /\ e.fm = Before(k).fm
          /\ ~Loaded(e.fm, e.op.kind, IdxOf(e.fm, e.op))
          /\ \A j \in DOMAIN hist.log :
               j > k /\ hist.log[j].op.name \in AccessorsOf(e.op.kind)
               => hist.log[j].out.raised /\ ~hist.log[j].flag

\* a version 6 fragment: load_tile_validity_offsets, then
\* file_validity_offset, which raises; and a version 15 fragment:
\* load_processed_conditions, then get_processed_conditions
GateSeen(version, kind, accessor) ==
  /\ fm.version = version
  /\ Len(hist.log) >= 2
  /\ hist.log[1].op.name = LoaderName(kind)
  /\ hist.log[2].op.name = accessor
  /\ hist.log[2].out.raised
C34_Witness ==
  \/ GateSeen(6, "tile_validity_offsets", "file_validity_offset")
  \/ GateSeen(15, "processed_conditions", "get_processed_conditions")

(***************************************************************************)
(* Concurrent loads of the processed conditions                            *)
(***************************************************************************)
\* processed_conditions_set_: both places that assign processed_conditions_
\* build the set from it before they return
processed_conditions_set(f) ==
  {f.processed_conditions[k] : k \in DOMAIN f.processed_conditions}

\* every call of every thread has returned
AllCallsReturned ==
  \A t \in DOMAIN thr : thr[t].at = "idle" /\ thr[t].done = Len(thr[t].todo)

\* C35: after any interleaving of concurrent load_processed_conditions
\* calls on a fragment of version 16 or later, processed_conditions_ is the
\* stored list of conditions, once, in the stored order, and
\* processed_conditions_set_ holds the same elements.
C35_ConditionsOnce ==
  /\ hist.focus[1] = "processed_conditions"
  /\ fm.version >= 16
  /\ AllCallsReturned
  => /\ fm.loaded_metadata.processed_conditions
     /\ fm.processed_conditions = hist.writer.processed_conditions
     /\ processed_conditions_set(fm)
          = processed_conditions_set(hist.writer)

(***************************************************************************)
(* A FragmentMetadata shared by two queries, statement by statement.       *)
(* free_tile_offsets runs its five loops; an iteration locks the mutex of  *)
(* the vector, releases its bytes and clears it, and then lowers its flag  *)
(* and unlocks.  An accessor tests the flag and then reads the element; it *)
(* takes no lock.  pc.pos[t] is the loop and the index of thread t in      *)
(* free_tile_offsets.                                                      *)
(***************************************************************************)
\* the vector that each loop of free_tile_offsets clears
FreeLoops ==
  << "tile_offsets", "tile_var_offsets", "tile_offsets",
     "tile_validity_offsets", "tile_var_sizes" >>

\* the mutex an iteration holds
FreeMutex(loop, i) ==
  IF loop \in {1, 3} THEN <<"tile_offsets_mtx", i>>
  ELSE IF loop = 2 THEN <<"tile_var_offsets_mtx", i>>
  ELSE <<"mtx", 0>>

\* free_tile_offsets is called: the first loop starts
FreeTileOffsetsCall ==
  \E t \in DOMAIN thr :
    \E o \in NextOp(t, "free_tile_offsets") :
      /\ Goto(t, Started(t, o), "free_lock", fm, mt, hist)
      /\ pc' = [pc EXCEPT !.pos[t] = <<1, 0>>]
      /\ UNCHANGED <<file, mtx>>

\* lock_guard, release_memory(size * sizeof(uint64_t)), clear()
FreeTileOffsetsClear ==
  \E t \in DOMAIN thr :
    LET loop == pc.pos[t][1]
        i == pc.pos[t][2]
        kind == FreeLoops[loop]
    IN  /\ thr[t].at = "free_lock"
        /\ FreeMutex(loop, i) \notin DOMAIN mtx
        /\ mtx' = Lock(FreeMutex(loop, i), t)
        /\ Goto(t, thr[t], "free_flag", [fm EXCEPT ![kind][i] = <<>>],
                release_memory(mt, Len(fm[kind][i]) * 8, "TILE_OFFSETS"),
                hist)
        /\ UNCHANGED <<pc, file>>

\* loaded_metadata_.<vector>[i] = false, the end of the iteration, and the
\* next iteration, the next loop or the return
FreeTileOffsetsFlag ==
  \E t \in DOMAIN thr :
    LET loop == pc.pos[t][1]
        i == pc.pos[t][2]
        kind == FreeLoops[loop]
        f2 == SetLoaded(fm, kind, i, FALSE)
        more == i + 1 < Cardinality(DOMAIN fm[kind])
    IN  /\ thr[t].at = "free_flag"
        /\ mtx' = Unlock(FreeMutex(loop, i))
        /\ UNCHANGED file
        /\ IF more \/ loop < Len(FreeLoops)
           THEN /\ Goto(t, thr[t], "free_lock", f2, mt, hist)
                /\ pc' = [pc EXCEPT !.pos[t] = IF more THEN <<loop, i + 1>>
                                               ELSE <<loop + 1, 0>>]
           ELSE /\ Return(t, thr[t], "none", Void, FALSE, FALSE, f2, mt, hist)
                /\ UNCHANGED pc

\* the accessors of the vectors that free_tile_offsets clears
OffsetAccessors == UNION {AccessorsOf(kind) : kind \in FreeGroup}
OffsetAccessor(f, o) ==
  CASE o.name = "file_offset" -> file_offset(f, o.field, o.tid)
    [] o.name = "file_var_offset" -> file_var_offset(f, o.field, o.tid)
    [] o.name = "file_validity_offset" ->
         file_validity_offset(f, o.field, o.tid)
    [] o.name = "persisted_tile_size" ->
         persisted_tile_size(f, o.field, o.tid)
    [] o.name = "persisted_tile_var_size" ->
         persisted_tile_var_size(f, o.field, o.tid)
    [] o.name = "persisted_tile_validity_size" ->
         persisted_tile_validity_size(f, o.field, o.tid)
    [] o.name = "tile_var_size" -> tile_var_size(f, o.field, o.tid)

\* the test of the flag: the not-loaded error, or on to the element
OffsetAccessorTest ==
  \E t \in DOMAIN thr, name \in OffsetAccessors :
    \E o \in NextOp(t, name) :
      /\ IF Loaded(fm, o.kind, IdxOf(fm, o))
         THEN Goto(t, Started(t, o), "element", fm, mt, hist)
         ELSE Return(t, Started(t, o), "none", Raise, FALSE, FALSE, fm, mt,
                     hist)
      /\ UNCHANGED <<pc, file, mtx>>

\* the object as the load of the section left it
LoadedObject(kind) ==
  hist.log[CHOOSE k \in DOMAIN hist.log :
             hist.log[k].op.name = LoaderName(kind)].fm

\* the read of the element.  The element of a vector that was cleared
\* since the test is out of its bounds, which is undefined: the value that
\* was there, any other value, or an abort.
OffsetAccessorElement ==
  \E t \in DOMAIN thr :
    LET o == thr[t].op
        idx == IdxOf(fm, o)
        there == OffsetAccessor(
                   SetLoaded([fm EXCEPT ![o.kind][idx] =
                                 LoadedObject(o.kind)[o.kind][idx]],
                             o.kind, idx, TRUE), o)
    IN  /\ thr[t].at = "element"
        /\ UNCHANGED <<pc, file, mtx>>
        /\ IF Len(fm[o.kind][idx]) > o.tid
           THEN Return(t, thr[t], "none",
                       OffsetAccessor(SetLoaded(fm, o.kind, idx, TRUE), o),
                       FALSE, TRUE, fm, mt, hist)
           ELSE \E outcome \in {"same", "other", "abort"} :
                  Return(t, thr[t], "cleared",
                         CASE outcome = "same" -> there
                           [] outcome = "other" -> Ret(Undefined)
                           [] outcome = "abort" -> Abort,
                         FALSE, TRUE, fm, mt, hist)

\* two queries on the fragment stored as st and opened as o
SharedReader(st, o, p, focus, threads) ==
  /\ file = st.file
  /\ fm = o.f
  /\ mt = o.mt
  /\ hist = [p |-> p, writer |-> st.f, focus |-> focus, fault |-> "none",
             array_schemas |-> ArraySchemas(st.f), reads |-> <<>>,
             logging |-> TRUE, log |-> <<>>, fm0 |-> o.f, mt0 |-> o.mt]
  /\ thr = threads
  /\ mtx = <<>>
  /\ pc = [at |-> "reading", pos |-> [t \in DOMAIN threads |-> <<0, 0>>]]

\* the fragments that queries share: stored, and opened by load()
SharedFragments ==
  {Bind(Stored(Written(r)), LAMBDA st :
     [p |-> r.p, st |-> st,
      o |-> OpenAndLoad(Written(r), st.file, MemoryTracker(Ample))]) :
     r \in ReadFragments}

\* one query loads the vector in focus and calls an accessor of it, the
\* other one calls free_tile_offsets
InitRace ==
  \E s \in SharedFragments, sec \in FreeGroup \X {"a", "d"} :
    \E name \in AccessorsOf(sec[1]) :
      SharedReader(s.st, s.o, s.p, sec,
                   << Thread(<< LoadOf(sec), Op(name, sec[1], sec[2], 0) >>,
                             0),
                      Thread(<< Op("free_tile_offsets", sec[1], sec[2],
                                   0) >>, 0) >>)

RaceNext ==
  \/ LoadTileOffsets
  \/ LoadTileVarOffsets
  \/ LoadTileVarSizes
  \/ LoadTileValidityOffsets
  \/ FreeTileOffsetsCall
  \/ FreeTileOffsetsClear
  \/ FreeTileOffsetsFlag
  \/ OffsetAccessorTest
  \/ OffsetAccessorElement

SpecRace == InitRace /\ [][RaceNext]_vars

\* C36: under any interleaving of free_tile_offsets with file_offset,
\* file_var_offset, file_validity_offset, persisted_tile_size,
\* persisted_tile_var_size, persisted_tile_validity_size or tile_var_size
\* on a shared FragmentMetadata, the accessor raises the not-loaded error
\* or returns the persisted value, and it never reads an element of a
\* vector that free_tile_offsets has cleared.
C36_NoClearedRead ==
  \A k \in DOMAIN hist.log :
    LET e == hist.log[k]
    IN  e.op.name \in OffsetAccessors =>
          /\ e.err # "cleared"
          /\ \/ e.out.raised
             \/ e.out = OffsetAccessor(LoadedObject(e.op.kind), e.op)

(***************************************************************************)
(* load_rtree and free_rtree on the shared object, statement by statement. *)
(* load_rtree holds mtx_ from its flag test to its return; free_rtree      *)
(* takes no lock.  pc.pos[t][1] is `freed` of thread t in free_rtree.      *)
(***************************************************************************)
RTreeTile == read_generic(file, GtOffsetOf(fm, <<"rtree", 0>>)).data

\* the version gate
LoadRTreeCall ==
  \E t \in DOMAIN thr :
    \E o \in NextOp(t, "load_rtree") :
      /\ IF LoaderSkips("rtree", fm.version)
         THEN Return(t, Started(t, o), "none", Void, TRUE, TRUE, fm, mt, hist)
         ELSE Goto(t, Started(t, o), "rtree_lock", fm, mt, hist)
      /\ UNCHANGED <<pc, file, mtx>>

\* lock_guard on mtx_, then the flag test
LoadRTreeLock ==
  \E t \in DOMAIN thr :
    /\ thr[t].at = "rtree_lock"
    /\ <<"mtx", 0>> \notin DOMAIN mtx
    /\ UNCHANGED <<pc, file>>
    /\ IF fm.loaded_metadata.rtree
       THEN /\ Return(t, thr[t], "none", Void, TRUE, TRUE, fm, mt, hist)
            /\ UNCHANGED mtx
       ELSE /\ Goto(t, thr[t], "rtree_take", fm, mt, hist)
            /\ mtx' = Lock(<<"mtx", 0>>, t)

\* the read of the generic tile and take_memory(tile.size(), RTREE)
LoadRTreeTake ==
  \E t \in DOMAIN thr :
    /\ thr[t].at = "rtree_take"
    /\ UNCHANGED <<pc, file>>
    /\ IF can_take_memory(mt, Len(RTreeTile))
       THEN /\ Goto(t, thr[t], "rtree_deserialize", fm,
                    take_memory(mt, Len(RTreeTile), "RTREE"),
                    CountRead(hist, <<"rtree", 0>>))
            /\ UNCHANGED mtx
       ELSE /\ Return(t, thr[t], "budget", Raise, FALSE, FALSE, fm, mt,
                      CountRead(hist, <<"rtree", 0>>))
            /\ mtx' = Unlock(<<"mtx", 0>>)

\* rtree_.deserialize(deserializer, domain, version_)
LoadRTreeDeserialize ==
  \E t \in DOMAIN thr :
    /\ thr[t].at = "rtree_deserialize"
    /\ UNCHANGED <<pc, file>>
    /\ \E s \in {rtree_deserialize([f |-> fm, pos |-> 0, ok |-> TRUE,
                                    fields |-> <<>>, mt |-> mt,
                                    err |-> "none"], RTreeTile)} :
         IF s.ok
         THEN /\ Goto(t, thr[t], "rtree_flag", s.f, mt, hist)
              /\ UNCHANGED mtx
         ELSE /\ Return(t, thr[t], s.err, Raise, FALSE, FALSE, fm, mt, hist)
              /\ mtx' = Unlock(<<"mtx", 0>>)

\* loaded_metadata_.rtree_ = true, and the return
LoadRTreeFlag ==
  \E t \in DOMAIN thr :
    /\ thr[t].at = "rtree_flag"
    /\ Return(t, thr[t], "none", Void, FALSE, FALSE,
              SetLoaded(fm, "rtree", 0, TRUE), mt, hist)
    /\ mtx' = Unlock(<<"mtx", 0>>)
    /\ UNCHANGED <<pc, file>>

\* auto freed = rtree_.free_memory()
FreeRTreeCall ==
  \E t \in DOMAIN thr :
    \E o \in NextOp(t, "free_rtree") :
      /\ Goto(t, Started(t, o), "rtree_release",
              [fm EXCEPT !.rtree = rtree_free_memory(@)], mt, hist)
      /\ pc' = [pc EXCEPT !.pos[t] = <<fm.rtree.buffer_size, 0>>]
      /\ UNCHANGED <<file, mtx>>

\* memory_tracker_->release_memory(freed, RTREE)
FreeRTreeRelease ==
  \E t \in DOMAIN thr :
    /\ thr[t].at = "rtree_release"
    /\ Goto(t, thr[t], "rtree_unflag", fm,
            release_memory(mt, pc.pos[t][1], "RTREE"), hist)
    /\ UNCHANGED <<pc, file, mtx>>

\* loaded_metadata_.rtree_ = false, and the return
FreeRTreeFlag ==
  \E t \in DOMAIN thr :
    /\ thr[t].at = "rtree_unflag"
    /\ Return(t, thr[t], "none", Void, FALSE, FALSE,
              SetLoaded(fm, "rtree", 0, FALSE), mt, hist)
    /\ UNCHANGED <<pc, file, mtx>>

\* what a query does with the R-tree: it loads it, frees it, or both
RTreePrograms ==
  LET load == Op("load_rtree", "rtree", "none", 0)
      free == Op("free_rtree", "rtree", "none", 0)
  IN  {<<load>>, <<free>>, <<load, free>>, <<free, load>>, <<load, load>>}

InitTree ==
  \E s \in SharedFragments, p1 \in RTreePrograms, p2 \in RTreePrograms :
    SharedReader(s.st, s.o, s.p, <<"rtree", "none">>,
                 << Thread(p1, 0), Thread(p2, 0) >>)

TreeNext ==
  \/ LoadRTreeCall
  \/ LoadRTreeLock
  \/ LoadRTreeTake
  \/ LoadRTreeDeserialize
  \/ LoadRTreeFlag
  \/ FreeRTreeCall
  \/ FreeRTreeRelease
  \/ FreeRTreeFlag

SpecTree == InitTree /\ [][TreeNext]_vars

\* the R-tree and the tracker after load_rtree alone on the opened fragment
RTreeLoaded == load_rtree(hist.fm0, file, hist.mt0)

\* C37: under any interleaving of load_rtree and free_rtree on a shared
\* FragmentMetadata, once the calls have returned: if loaded_metadata_.rtree_
\* is true, the R-tree holds all persisted leaves with its levels built and
\* the tracker holds the charge of the R-tree; if it is false, no R-tree
\* charge is held.
C37_RTreeFlag ==
  AllCallsReturned =>
    IF fm.loaded_metadata.rtree
    THEN /\ fm.rtree.leaves = hist.writer.rtree.leaves
         /\ fm.rtree.built
         /\ mt.counters["RTREE"] = RTreeLoaded.mt.counters["RTREE"]
    ELSE mt.counters["RTREE"] = 0

(***************************************************************************)
(* Termination: two queries, each in one call of a loader, of free_rtree,  *)
(* of free_tile_offsets or of set_mbr on the shared object                 *)
(***************************************************************************)
\* set_mbr: rtree_.set_leaf, which fails on a tile that is not a leaf of
\* the R-tree, then on to expand_non_empty_domain
SetMbrCall ==
  \E t \in DOMAIN thr :
    \E o \in NextOp(t, "set_mbr") :
      /\ IF o.tid + fm.tile_index_base < Len(fm.rtree.leaves)
         THEN Goto(t, Started(t, o), "expand",
                   [fm EXCEPT !.rtree =
                      rtree_set_leaf(@, o.tid + fm.tile_index_base,
                                     MbrAt(fm.array_schema, o.tid))],
                   mt, hist)
         ELSE Return(t, Started(t, o), "rtree", Raise, FALSE, FALSE, fm, mt,
                     hist)
      /\ UNCHANGED <<pc, file, mtx>>

\* expand_non_empty_domain under the lock_guard on mtx_
SetMbrExpand ==
  \E t \in DOMAIN thr :
    /\ thr[t].at = "expand"
    /\ <<"mtx", 0>> \notin DOMAIN mtx
    /\ Return(t, thr[t], "none", Void, FALSE, FALSE,
              expand_non_empty_domain(fm, MbrAt(fm.array_schema,
                                                thr[t].op.tid)),
              mt, hist)
    /\ UNCHANGED <<pc, file, mtx>>

\* The loaders as far as the mutexes go.  What a section holds plays no
\* part in the locking, so the step that reads and deserializes under the
\* lock is taken with either outcome, and of the object it sets the flag
\* only.
\* the version gate and the flag test in front of the lock
LoaderEnter ==
  \E t \in DOMAIN thr, kind \in Sections :
    \E o \in NextOp(t, LoaderName(kind)) :
      /\ IF \/ LoaderSkips(kind, fm.version)
            \/ ChecksBeforeLock(kind) /\ Loaded(fm, kind, IdxOf(fm, o))
         THEN Return(t, Started(t, o), "none", Void, TRUE, TRUE, fm, mt, hist)
         ELSE Goto(t, Started(t, o), "lock", fm, mt, hist)
      /\ UNCHANGED <<pc, file, mtx>>

\* lock_guard, and the flag test under the lock
LoaderAcquire ==
  \E t \in DOMAIN thr :
    LET kind == thr[t].op.kind
        idx == IdxOf(fm, thr[t].op)
    IN  /\ thr[t].at = "lock"
        /\ kind \in Sections
        /\ LoaderMutex(kind, idx) \notin DOMAIN mtx
        /\ UNCHANGED <<pc, file>>
        /\ IF ChecksUnderLock(kind) /\ Loaded(fm, kind, idx)
           THEN /\ Return(t, thr[t], "none", Void, TRUE, TRUE, fm, mt, hist)
                /\ UNCHANGED mtx
           ELSE /\ Goto(t, thr[t], "read", fm, mt, hist)
                /\ mtx' = Lock(LoaderMutex(kind, idx), t)

\* the read and the deserialization return or throw, the flag is set if
\* they return, and the lock_guard goes out of scope
LoaderRelease ==
  \E t \in DOMAIN thr, err \in {"none", "io", "deserializer", "budget"} :
    LET kind == thr[t].op.kind
        idx == IdxOf(fm, thr[t].op)
    IN  /\ thr[t].at = "read"
        /\ kind \in Sections
        /\ mtx' = Unlock(LoaderMutex(kind, idx))
        /\ UNCHANGED <<pc, file>>
        /\ IF err = "none"
           THEN Return(t, thr[t], err, Void, FALSE, FALSE,
                       SetLoaded(fm, kind, idx, TRUE), mt,
                       CountRead(hist, <<kind, idx>>))
           ELSE Return(t, thr[t], err, Raise, FALSE, FALSE, fm, mt, hist)

\* the calls of the queries
LiveCalls ==
  {Op(LoaderName(kind), kind, IF kind \in PerFieldKinds THEN "a" ELSE "none",
      0) : kind \in Sections}
  \cup {Op("load_footer", "footer", "none", 0),
        Op("free_rtree", "rtree", "none", 0),
        Op("free_tile_offsets", "tile_offsets", "a", 0),
        Op("set_mbr", "rtree", "none", 0)}

\* the shared fragments as opened, and with the R-tree loaded
LiveFragments ==
  SharedFragments
  \cup {Bind(load_rtree(s.o.f, s.st.file, s.o.mt), LAMBDA r :
           [s EXCEPT !.o = [f |-> r.f, mt |-> r.mt]]) : s \in SharedFragments}

\* two queries, each with one call; which of the two threads makes which
\* call makes no difference, and the R-tree is loaded beforehand only in
\* front of calls on the R-tree, the only ones that read it
InitLive ==
  \E s \in LiveFragments, calls \in {{c1, c2} : c1, c2 \in LiveCalls} :
    LET c1 == CHOOSE c \in calls : TRUE
        c2 == CHOOSE c \in calls : calls = {c1, c}
    IN  /\ s.o.f.loaded_metadata.rtree => "rtree" \in {c1.kind, c2.kind}
        /\ SharedReader(s.st, s.o, s.p, <<c1.kind, c2.kind>>,
                        << Thread(<<c1>>, 0), Thread(<<c2>>, 0) >>)

LiveNext ==
  \/ LoadFooter
  \/ LoaderEnter
  \/ LoaderAcquire
  \/ LoaderRelease
  \/ FreeRTree
  \/ FreeTileOffsetsCall
  \/ FreeTileOffsetsClear
  \/ FreeTileOffsetsFlag
  \/ SetMbrCall
  \/ SetMbrExpand

\* every thread that can take a step takes one in the end
SpecLive == InitLive /\ [][LiveNext]_vars /\ WF_vars(LiveNext)

\* the mutexes thread t holds, and whether it waits for one
HeldBy(t) == {m \in DOMAIN mtx : mtx[m] = t}
Waits(t) == thr[t].at \in {"lock", "free_lock", "expand"}

\* the mutex that a waiting thread waits for
WaitsFor(t) ==
  CASE thr[t].at = "lock" ->
         IF thr[t].op.kind = "footer" THEN <<"mtx", 0>>
         ELSE LoaderMutex(thr[t].op.kind, IdxOf(fm, thr[t].op))
    [] thr[t].at = "free_lock" -> FreeMutex(pc.pos[t][1], pc.pos[t][2])
    [] thr[t].at = "expand" -> <<"mtx", 0>>

\* no call holds two mutexes, and none waits for a mutex while it holds one
OneMutex ==
  \A t \in DOMAIN thr :
    /\ Cardinality(HeldBy(t)) <= 1
    /\ Waits(t) => HeldBy(t) = {}

\* C38: concurrent calls of the loaders, free_rtree, free_tile_offsets and
\* set_mbr on one FragmentMetadata all return in the end, given that the
\* reads of storage return: no call waits for one of mtx_,
\* tile_offsets_mtx_[i], tile_var_offsets_mtx_[i] while it holds another.
C38_AllReturn == []OneMutex /\ <>AllCallsReturned

\* one call waits for a mutex that the other call holds in front of its
\* read of storage
C38_Witness ==
  \E t \in DOMAIN thr, u \in DOMAIN thr :
    /\ Waits(t)
    /\ WaitsFor(t) \in HeldBy(u)
    /\ thr[u].at = "read"

(***************************************************************************)
(* The charge of the offsets and sizes                                     *)
(***************************************************************************)
\* C39: in every state reached by successful and failed calls of
\* load_tile_offsets, load_tile_var_offsets, load_tile_var_sizes,
\* load_tile_validity_offsets and free_tile_offsets, the bytes charged to
\* the tracker under TILE_OFFSETS are 8 times the number of elements that
\* tile_offsets_, tile_var_offsets_, tile_var_sizes_ and
\* tile_validity_offsets_ hold, and free_tile_offsets never releases more
\* bytes than were taken.
C39_OffsetsCharge ==
  hist.focus[1] \in FreeGroup /\ fm.loaded_metadata.footer =>
    /\ mt.counters["TILE_OFFSETS"] = Held(fm, "tile_offsets")
    /\ \A k \in DOMAIN hist.log :
         hist.log[k].op.name = "free_tile_offsets" =>
           hist.log[k].mt.counters["TILE_OFFSETS"] >= 0

(***************************************************************************)
(* The order of the fragments.  A fragment is reduced to what operator<    *)
(* reads, timestamp_range_ and fragment_uri_; a URI is the sequence of the *)
(* bytes of its string.  fm holds the fragments compared, hist the         *)
(* outcome of operator< for every pair of them.  Three fragments are       *)
(* compared at a time, which is what transitivity takes.                   *)
(***************************************************************************)
MaxStamp == 1     \* the timestamps are 0..MaxStamp
MaxUriLen == 2    \* the bytes of a URI
UriBytes == {47, 95}
Uris == UNION {[1..n -> UriBytes] : n \in 0..MaxUriLen}

\* URI::operator<: the order of the strings, byte by byte, a proper prefix
\* before the longer string
RECURSIVE URI_operator_lt(_, _)
URI_operator_lt(a, b) ==
  IF b = <<>> THEN FALSE
  ELSE IF a = <<>> THEN TRUE
  ELSE IF a[1] # b[1] THEN a[1] < b[1]
  ELSE URI_operator_lt(Tail(a), Tail(b))

\* FragmentMetadata::first_timestamp
first_timestamp(f) == f.timestamp_range[1]

\* FragmentMetadata::operator< with the timestamps alone deciding whenever
\* they differ dropped
operator_lt_either(f, metadata) ==
  \/ f.timestamp_range[1] < metadata.timestamp_range[1]
  \/ URI_operator_lt(f.fragment_uri, metadata.fragment_uri)
\* FragmentMetadata::operator<
operator_lt(f, metadata) ==
  \/ f.timestamp_range[1] < metadata.timestamp_range[1]
  \/ /\ f.timestamp_range[1] = metadata.timestamp_range[1]
     /\ URI_operator_lt(f.fragment_uri, metadata.fragment_uri)

\* fragments written at one timestamp, and fragments whose range ends at
\* the last timestamp
OrderFragments ==
  UNION {{[timestamp_range |-> <<t1, t2>>, fragment_uri |-> u] :
            t2 \in {t1, MaxStamp}, u \in Uris} : t1 \in 0..MaxStamp}

InitOrder ==
  /\ fm \in [1..3 -> OrderFragments]
  /\ hist = [op |-> "none", out |-> <<>>]
  /\ pc = [at |-> "constructed"]
  /\ file = <<>>
  /\ mt = [available |-> 0]
  /\ thr = <<>>
  /\ mtx = <<>>

\* fm[i] < fm[j] for every two of the fragments
CompareFragments ==
  /\ pc.at = "constructed"
  /\ hist' = [op |-> "operator<",
              out |-> [i \in DOMAIN fm |->
                         [j \in DOMAIN fm |-> operator_lt(fm[i], fm[j])]]]
  /\ pc' = [at |-> "compared"]
  /\ UNCHANGED <<fm, file, mt, thr, mtx>>

\* first_timestamp of every fragment
FirstTimestamps ==
  /\ pc.at = "constructed"
  /\ hist' = [op |-> "first_timestamp",
              out |-> [i \in DOMAIN fm |-> first_timestamp(fm[i])]]
  /\ pc' = [at |-> "read"]
  /\ UNCHANGED <<fm, file, mt, thr, mtx>>

OrderNext == CompareFragments \/ FirstTimestamps

SpecOrder == InitOrder /\ [][OrderNext]_vars

\* the byte at which two URIs part: the first position that one of them
\* lacks or at which their bytes differ
Parting(a, b) ==
  CHOOSE k \in 1..(Len(a) + 1) :
    /\ \A i \in 1..(k - 1) : i <= Len(b) /\ a[i] = b[i]
    /\ k > Len(a) \/ k > Len(b) \/ a[k] # b[k]

\* URI a sorts before URI b: where they part, a has ended and b has not,
\* or a has the smaller byte
UriBefore(a, b) ==
  LET k == Parting(a, b)
  IN  /\ k <= Len(b)
      /\ k > Len(a) \/ a[k] < b[k]

\* the pair that the claim tells fragments apart by
OrderKey(f) == <<f.timestamp_range[1], f.fragment_uri>>

\* C40: the outcomes of operator< over any three fragments are those of a
\* strict total order on the pairs (first timestamp, URI): no fragment is
\* before itself, no two are before each other, before is transitive, of
\* two fragments with distinct pairs one is before the other, the fragment
\* of the smaller first timestamp is before the other, and of two fragments
\* of one first timestamp the one whose URI sorts first is before the other.
C40_StrictTotalOrder ==
  pc.at = "compared" =>
    \A i \in DOMAIN fm, j \in DOMAIN fm :
      /\ ~hist.out[i][i]
      /\ hist.out[i][j] => ~hist.out[j][i]
      /\ \A k \in DOMAIN fm :
           hist.out[i][j] /\ hist.out[j][k] => hist.out[i][k]
      /\ OrderKey(fm[i]) # OrderKey(fm[j]) =>
           hist.out[i][j] \/ hist.out[j][i]
      /\ fm[i].timestamp_range[1] < fm[j].timestamp_range[1] =>
           hist.out[i][j]
      /\ fm[i].timestamp_range[1] = fm[j].timestamp_range[1] =>
           (hist.out[i][j] <=>
              UriBefore(fm[i].fragment_uri, fm[j].fragment_uri))

\* three fragments compared: the second has the first timestamp of the
\* first and a URI that continues the URI of the first, the third a later
\* first timestamp and a URI that sorts before both, and each is before
\* the next
C40_Witness ==
  /\ pc.at = "compared"
  /\ fm[1].timestamp_range[1] = fm[2].timestamp_range[1]
  /\ Len(fm[1].fragment_uri) < Len(fm[2].fragment_uri)
  /\ SubSeq(fm[2].fragment_uri, 1, Len(fm[1].fragment_uri))
       = fm[1].fragment_uri
  /\ fm[2].timestamp_range[1] < fm[3].timestamp_range[1]
  /\ UriBefore(fm[3].fragment_uri, fm[1].fragment_uri)
  /\ hist.out[1][2] /\ hist.out[2][3] /\ hist.out[1][3]

====
